---------------------------- MODULE Spec2Model ----------------------------
(***************************************************************************)
(* A model of influxdb-relay: the cluster router (relay/cluster.go), the   *)
(* HTTP backend with its health probe (relay/backend.go, kept in            *)
(* src/main.go), the HTTP front-end (relay/http.go, kept in                 *)
(* src/unnamed/part_000) and the consistent-hash ring                       *)
(* (toolkits/consistent, kept in src/relay/merge_test.go).                  *)
(*                                                                         *)
(* src/relay/cluster.go holds two copies of the router.  The model follows  *)
(* the second copy (lines 386-743): it is the one whose constructor         *)
(* allocates ic.nodes and ic.stats and the one that uses                    *)
(* HttpBackend.bufferOn.  Write, ScanKey and Close are the same in both     *)
(* copies; the WriteRow of the first copy (lines 339-373) differs and is    *)
(* modelled beside the second.                                              *)
(*                                                                         *)
(* Bytes are one-character strings, byte strings are sequences of them.     *)
(***************************************************************************)
EXTENDS Integers, Sequences, FiniteSets, TLC

(***************************************************************************)
(* Bounds of the model.                                                    *)
(***************************************************************************)
\* HTTP requests and direct calls of Write served in one behaviour.
MaxRequests == 1
\* Lines in one payload.
MaxLines == 2
\* Ticks delivered by all probe tickers together in one behaviour.
MaxTicks == 2
\* cfg.Replicas: virtual nodes per shard.
Replicas == 3
\* CAP, the capacity of a retry buffer in bytes (cfg.BufferSizeMB*MB).
CAP == 8
\* BATCH, the batch target of a retry buffer in bytes (cfg.MaxBatchKB*KB).
BATCH == 8
\* Rows in the series of a result set.
MaxRows == 2
\* Calls of Add and Remove made on one ring.
MaxRingOps == 3
\* Longest measurement name handed to the key scan, in bytes.
MaxName == 2
\* Increments of a statistics counter in one behaviour.
MaxAdds == 2
\* Rotations of the statistics snapshots in one behaviour.
MaxRotations == 2

(***************************************************************************)
(* Program constants.                                                      *)
(***************************************************************************)
StatusNoContent == 204
StatusBadRequest == 400
StatusMethodNotAllowed == 405
StatusInternalServerError == 500

(***************************************************************************)
(* Helpers on sequences.                                                   *)
(***************************************************************************)
Range(s) == {s[i] : i \in 1..Len(s)}

RECURSIVE SumLen(_)
SumLen(q) == IF q = <<>> THEN 0 ELSE Len(Head(q).line) + SumLen(Tail(q))

(***************************************************************************)
(* ScanKey: the measurement key of a line.  A backslash takes the next     *)
(* byte verbatim; reading that byte past the end of the line is an index   *)
(* out of range, a run-time panic.  The first unescaped space or comma     *)
(* ends the key; a line that ends first gives io.EOF.                      *)
(***************************************************************************)
RECURSIVE ScanFrom(_, _, _)
ScanFrom(point, i, keySlice) ==
    IF i > Len(point)
    THEN [key |-> <<>>, err |-> "EOF"]
    ELSE LET c == point[i] IN
         CASE c = "\\" ->
                IF i + 1 > Len(point)
                THEN [key |-> <<>>, err |-> "panic"]
                ELSE ScanFrom(point, i + 2, Append(keySlice, point[i + 1]))
           [] c \in {" ", ","} -> [key |-> keySlice, err |-> "nil"]
           [] OTHER -> ScanFrom(point, i + 1, Append(keySlice, c))

\* A scan that takes a backslash for an ordinary byte.
ScanKeyPlain(point) ==
    LET ds == {i \in 1..Len(point) : point[i] \in {" ", ","}} IN
    IF ds = {}
    THEN [key |-> <<>>, err |-> "EOF"]
    ELSE LET d == CHOOSE i \in ds : \A j \in ds : i <= j IN
         [key |-> SubSeq(point, 1, d - 1), err |-> "nil"]

ScanKey(point) == ScanFrom(point, 1, <<>>)

(***************************************************************************)
(* bytes.TrimRight(line, " \t\r\n") and bytes.Buffer.ReadBytes('\n').      *)
(***************************************************************************)
RECURSIVE TrimRight(_)
TrimRight(line) ==
    IF line # <<>> /\ line[Len(line)] \in {" ", "\t", "\r", "\n"}
    THEN TrimRight(SubSeq(line, 1, Len(line) - 1))
    ELSE line

RECURSIVE IndexNL(_, _)
IndexNL(buf, i) ==
    IF i > Len(buf) THEN 0
    ELSE IF buf[i] = "\n" THEN i ELSE IndexNL(buf, i + 1)

\* The bytes up to and including the first newline, or all of them.
ReadBytes(buf) ==
    LET n == IndexNL(buf, 1) IN
    IF n = 0 THEN [line |-> buf, rest |-> <<>>]
    ELSE [line |-> SubSeq(buf, 1, n), rest |-> SubSeq(buf, n + 1, Len(buf))]

(***************************************************************************)
(* The consistent-hash ring.  crc32.ChecksumIEEE is tabulated, with its    *)
(* true values, on the strings the model hashes; the shard names and       *)
(* measurement names are chosen so that every value is below 2^31.         *)
(***************************************************************************)
\* Two shard names with one checksum: CRC-32 is linear, so the two are
\* hashed alike behind any prefix and own the same virtual nodes.
ShardX == <<"0", "0", "d", "r", "y", "1", "n", "q">>
ShardY == <<"g", "p", "f", "j", "v", "q", "t", "v">>

ChecksumIEEE(s) ==
    CASE s = <<"0", "b">> -> 1025713272
      [] s = <<"1", "b">> -> 607655225
      [] s = <<"2", "b">> -> 253052666
      [] s = <<"3", "b">> -> 370046907
      [] s = <<"0", "c">> -> 1243878638
      [] s = <<"1", "c">> -> 1396647343
      [] s = <<"2", "c">> -> 2014475884
      [] s = <<"3", "c">> -> 1627997997
      [] s = <<"0", "o">> -> 1133664453
      [] s = <<"1", "o">> -> 1518954884
      [] s = <<"2", "o">> -> 1906588231
      [] s = <<"3", "o">> -> 1757350662
      [] s \in {<<"0">> \o ShardX, <<"0">> \o ShardY} -> 436452226
      [] s \in {<<"1">> \o ShardX, <<"1">> \o ShardY} -> 226013121
      [] s \in {<<"2">> \o ShardX, <<"2">> \o ShardY} -> 888509188
      [] s \in {<<"3">> \o ShardX, <<"3">> \o ShardY} -> 596543303
      [] s = <<"f">> -> 1993550816
      [] s = <<"g">> -> 30677878
      [] s = <<"s">> -> 453955339

\* strconv.Itoa on the replica indices the model uses.
Itoa(i) == CASE i = 0 -> "0" [] i = 1 -> "1" [] i = 2 -> "2" [] i = 3 -> "3"

\* sort.Ints, as an insertion sort; equal hashes are all kept.
RECURSIVE InsertSorted(_, _)
InsertSorted(s, h) ==
    IF s = <<>> THEN <<h>>
    ELSE IF h <= Head(s) THEN <<h>> \o s
    ELSE <<Head(s)>> \o InsertSorted(Tail(s), h)

RECURSIVE SortInts(_)
SortInts(s) == IF s = <<>> THEN <<>> ELSE InsertSorted(SortInts(Tail(s)), Head(s))

\* consistent.New(replicas, nil)
NewMap == [nodes |-> <<>>, hashMap |-> <<>>]

\* m.hashMap[hash] = node: a later entry replaces an earlier one.
MapPut(hm, h, node) == [x \in (DOMAIN hm) \cup {h} |-> IF x = h THEN node ELSE hm[x]]

\* The loop of Map.Add over the replicas of one node.
RECURSIVE AddReplicas(_, _, _)
AddReplicas(m, node, i) ==
    IF i >= Replicas THEN m
    ELSE LET hash == ChecksumIEEE(<<Itoa(i)>> \o node) IN
         AddReplicas([nodes |-> Append(m.nodes, hash),
                      hashMap |-> MapPut(m.hashMap, hash, node)], node, i + 1)

\* Map.Add(node); without the sort the hashes stay in the order of the calls.
MapAddUnsorted(m, node) == AddReplicas(m, node, 0)
MapAdd(m, node) ==
    LET a == AddReplicas(m, node, 0) IN
    [nodes |-> SortInts(a.nodes), hashMap |-> a.hashMap]

\* sort.Search: the least index whose hash is >= hash, Len+1 when none is.
RECURSIVE SearchFrom(_, _, _)
SearchFrom(nodes, hash, i) ==
    IF i > Len(nodes) THEN i
    ELSE IF nodes[i] >= hash THEN i ELSE SearchFrom(nodes, hash, i + 1)

\* m.hashMap[hash]: a hash that is not a key of the map gives "".
MapLookup(hm, h) == IF h \in DOMAIN hm THEN hm[h] ELSE <<>>

\* Map.Get(key)
MapGet(m, key) ==
    IF m.nodes = <<>> THEN <<>>
    ELSE LET idx == SearchFrom(m.nodes, ChecksumIEEE(key), 1) IN
         MapLookup(m.hashMap, m.nodes[IF idx = Len(m.nodes) + 1 THEN 1 ELSE idx])

\* delete(m.hashMap, hash)
MapDelete(hm, h) == [x \in (DOMAIN hm) \ {h} |-> hm[x]]

\* Map.deleteSlice(hash): the loop goes on to index i+1 after it has taken
\* the element at i out, so the element that moved to i is not looked at.
RECURSIVE deleteSlice(_, _, _)
deleteSlice(ns, hash, i) ==
    IF i > Len(ns) THEN ns
    ELSE IF ns[i] = hash
         THEN deleteSlice(SubSeq(ns, 1, i - 1) \o SubSeq(ns, i + 1, Len(ns)), hash, i + 1)
         ELSE deleteSlice(ns, hash, i + 1)

\* The loop of Map.Remove over the replicas of one node.
RECURSIVE RemoveReplicas(_, _, _)
RemoveReplicas(m, node, i) ==
    IF i >= Replicas THEN m
    ELSE LET hash == ChecksumIEEE(<<Itoa(i)>> \o node) IN
         RemoveReplicas([nodes |-> deleteSlice(m.nodes, hash, 1),
                         hashMap |-> MapDelete(m.hashMap, hash)], node, i + 1)

\* Map.Remove(node)
MapRemove(m, node) == RemoveReplicas(m, node, 0)

(***************************************************************************)
(* The configuration the model runs: cfg.Outputs has shard "b" with two    *)
(* backends (b1 with a retry buffer, b2 without) and shard "c" with one;   *)
(* cfg.Former has shard "o" with one backend.                              *)
(***************************************************************************)
Outputs == (<<"b">> :> <<"b1", "b2">>) @@ (<<"c">> :> <<"c1">>)
Former == (<<"o">> :> <<"o1">>)

Backends == {"b1", "b2", "c1", "o1"}

\* cfg.BufferSizeMB > 0: hb.bufferOn and hb.rb are set.
BufferOn(b) == b = "b1"

\* NewInfluxCluster: ic.nodes and ic.ring, ic.formerNodes and ic.formerRing.
nodes == Outputs
formerNodes == Former
ring == MapAdd(MapAdd(NewMap, <<"b">>), <<"c">>)
formerRing == MapAdd(NewMap, <<"o">>)

\* ic.nodes[c]: a missing key gives the nil slice.
NodesOf(m, c) == IF c \in DOMAIN m THEN m[c] ELSE <<>>

\* Every backend of a map of shards.
BackendsOf(m) == UNION {Range(m[c]) : c \in DOMAIN m}

(***************************************************************************)
(* Inputs.  Lines of line protocol, as byte strings.                       *)
(***************************************************************************)
LineG == <<"g", " ", "v", "=", "1">>
LineF == <<"f", ",", "t", "=", "a", " ", "v", "=", "1">>
LineShort == <<"g", " ", "v">>
LineNoDelim == <<"x">>
LineBackslash == <<"g", "\\">>
LineBlank == <<" ">>

\* Lines a client may send to /write, and lines a caller may hand to Write.
HttpLines == {LineG, LineF, LineNoDelim}
ApiLines == {LineG, LineShort, LineNoDelim, LineBackslash, LineBlank}

RECURSIVE Join(_)
Join(ls) == IF ls = <<>> THEN <<>> ELSE Head(ls) \o <<"\n">> \o Join(Tail(ls))

LineSeqs(S) == UNION {[1..n -> S] : n \in 1..MaxLines}

(***************************************************************************)
(* The merge engine (src/relay/merge.go, and the other copy of it in       *)
(* src/unnamed/part_001).  A payload is the byte string of a response      *)
(* body: no bytes at all, bytes that are not JSON, or a result set.  Of a  *)
(* result set the model keeps what json.Unmarshal keeps of it in a Result  *)
(* (the statement ids, the series, their names and rows; the columns are   *)
(* carried along unchanged and left out) and its form: "sent" is the text  *)
(* a database sent, "go" the text json.Marshal writes for a Result, which  *)
(* is compact and spells the key of the series "Series", the field having  *)
(* no json tag.  A row is <<key, value>>, the cells as their JSON text.    *)
(* The payloads are those of well-formed responses: a statement id occurs  *)
(* once in a payload; a row has its two cells, or one cell as the rows of  *)
(* SHOW SERIES and SHOW TAG KEYS have.  mergeSlice indexes cell 1 of a row *)
(* without a test of its length: on a row of one cell that is an index out *)
(* of range, a run-time panic, and merge returns nothing.                  *)
(***************************************************************************)
NoBytes == [kind |-> "empty", form |-> "sent", results |-> <<>>]
NotJson == [kind |-> "text", form |-> "sent", results |-> <<>>]
Doc(form, results) == [kind |-> "json", form |-> form, results |-> results]

\* len(p) == 0
IsEmpty(p) == p.kind = "empty"

RowKeys == {"t1", "t2"}

\* A JSON number that is not a float64: 2^53 + 1.  The row values: null,
\* two small numbers, and that one.
BigNumber == "9007199254740993"
Cells == {"null", "1", "2", BigNumber}
Rows == {<<k, v>> : k \in RowKeys, v \in Cells}
ValueLists == UNION {[1..n -> Rows] : n \in 0..MaxRows}

\* The series lists of a result: none, or one series of the measurement.
SeriesLists == {<<>>} \cup {<<[name |-> "g", values |-> vs]>> : vs \in ValueLists}

\* The result sets: one statement, or two of which the second has no series
\* or one series of one row.
ResultLists ==
    {<<[statement_id |-> id, series |-> s]>> : id \in {0, 1}, s \in SeriesLists}
    \cup {<<[statement_id |-> 0, series |-> s], [statement_id |-> 1, series |-> s2]>> :
             s \in SeriesLists,
             s2 \in {<<>>, <<[name |-> "g", values |-> <<<<"t1", "1">>>>]>>}}

Payloads == {NoBytes, NotJson} \cup {Doc("sent", r) : r \in ResultLists}

\* Result sets for the shape of merge's output: series with their columns,
\* a second series of another name, and two statements in either order.
FrameRows == {<<"t1", "null">>, <<"t1", "1">>}
KeyRows == {<<"k1">>, <<"k2">>}
FrameValues ==
    UNION {[1..n -> FrameRows] : n \in 0..MaxRows}
    \cup UNION {[1..n -> KeyRows] : n \in 1..MaxRows}
SeriesG(vs) ==
    [name |-> "g",
     columns |-> IF vs # <<>> /\ Len(vs[1]) = 1 THEN <<"key">> ELSE <<"time", "value">>,
     values |-> vs]
SeriesH == [name |-> "h", columns |-> <<"time", "load">>, values |-> <<<<"t1", "2">>>>]
FrameSeries ==
    {<<>>} \cup {<<SeriesG(vs)>> : vs \in FrameValues}
           \cup {<<SeriesG(vs), SeriesH>> : vs \in FrameValues}
FrameResults ==
    {<<[statement_id |-> id, series |-> s]>> : id \in {0, 1}, s \in FrameSeries}
    \cup {<<[statement_id |-> 0, series |-> s], [statement_id |-> 1, series |-> s2]>> :
             s \in FrameSeries, s2 \in {<<>>, <<SeriesH>>}}
    \cup {<<[statement_id |-> 1, series |-> s2], [statement_id |-> 0, series |-> s]>> :
             s \in FrameSeries, s2 \in {<<>>, <<SeriesH>>}}
FramePayloads == {Doc("sent", r) : r \in FrameResults}

\* A cell of Values, an interface{}, after json.Unmarshal: a JSON number is
\* stored as a float64, the nearest one when it is not one.  The float64 is
\* written as the text json.Marshal gives it.
Float64(cell) == IF cell = BigNumber THEN "9007199254740992" ELSE cell

\* The rows, series and results as json.Unmarshal stores them.
DecodeValues(vs) ==
    [i \in 1..Len(vs) |-> [k \in 1..Len(vs[i]) |-> Float64(vs[i][k])]]
DecodeSeries(ss) ==
    [i \in 1..Len(ss) |-> [ss[i] EXCEPT !.values = DecodeValues(@)]]
DecodeResults(rs) ==
    [i \in 1..Len(rs) |-> [rs[i] EXCEPT !.series = DecodeSeries(@)]]

\* json.Unmarshal(p, r): an error for bytes that are not a JSON text, the
\* empty byte string among them; otherwise the Result.
Unmarshal(p) ==
    IF p.kind = "json"
    THEN [err |-> FALSE, Results |-> DecodeResults(p.results)]
    ELSE [err |-> TRUE, Results |-> <<>>]

\* json.Marshal(r1)
Marshal(Results) == Doc("go", Results)

\* mergeSlice panics: the sides have the same length and at some index both
\* rows have the same first cell and the row of a has no cell 1, or its
\* cell 1 is null and the row of b has none; or a row has no cell at all.
mergeSlicePanics(a, b) ==
    /\ Len(a) = Len(b)
    /\ \E i \in 1..Len(a) :
          \/ Len(a[i]) < 1
          \/ Len(b[i]) < 1
          \/ /\ a[i][1] = b[i][1]
             /\ \/ Len(a[i]) < 2
                \/ a[i][2] = "null" /\ Len(b[i]) < 2

\* mergeSlice: nothing is done for sides of different lengths; otherwise a
\* row of a whose value is null takes the value of the row of b at the same
\* index when the keys are equal and that value is not null.
mergeSlice(a, b) ==
    IF Len(a) # Len(b) THEN a
    ELSE [ai \in 1..Len(a) |->
             IF a[ai][1] = b[ai][1] /\ a[ai][2] = "null" /\ b[ai][2] # "null"
             THEN <<a[ai][1], b[ai][2]>>
             ELSE a[ai]]

\* The body of the inner loop of merge for one pair of results.
MergePair(v1, v2) ==
    IF v1.statement_id # v2.statement_id THEN v1
    ELSE IF Len(v1.series) = 0 \/ Len(v2.series) = 0
         THEN [v1 EXCEPT !.series = @ \o v2.series]
         ELSE [v1 EXCEPT !.series[1].values = mergeSlice(@, v2.series[1].values)]

\* The same for the other copy of merge, which appends the rows of the
\* second side to those of the first.
MergePairAppend(v1, v2) ==
    IF v1.statement_id # v2.statement_id THEN v1
    ELSE IF Len(v1.series) = 0 \/ Len(v2.series) = 0
         THEN [v1 EXCEPT !.series = @ \o v2.series]
         ELSE [v1 EXCEPT !.series[1].values = @ \o v2.series[1].values]

\* The body of the inner loop of the copy named: "fill" is merge.go.
PairOf(copy, v1, v2) ==
    IF copy = "fill" THEN MergePair(v1, v2) ELSE MergePairAppend(v1, v2)

\* The inner loop: v1 against every result of r2, in order.
RECURSIVE MergeInto(_, _, _, _)
MergeInto(copy, v1, r2, j) ==
    IF j > Len(r2) THEN v1
    ELSE MergeInto(copy, PairOf(copy, v1, r2[j]), r2, j + 1)

\* The two loops of merge.
MergeResults(copy, r1, r2) ==
    [i \in 1..Len(r1) |-> MergeInto(copy, r1[i], r2, 1)]

\* The inner loop meets a pair on which mergeSlice panics; the other copy
\* of merge does not call mergeSlice.
RECURSIVE IntoPanics(_, _, _, _)
IntoPanics(copy, v1, r2, j) ==
    IF j > Len(r2) THEN FALSE
    ELSE IF /\ copy = "fill"
            /\ v1.statement_id = r2[j].statement_id
            /\ Len(v1.series) > 0 /\ Len(r2[j].series) > 0
            /\ mergeSlicePanics(v1.series[1].values, r2[j].series[1].values)
         THEN TRUE
         ELSE IntoPanics(copy, PairOf(copy, v1, r2[j]), r2, j + 1)

\* The loops of merge panic.
MergePanics(copy, r1, r2) == \E i \in 1..Len(r1) : IntoPanics(copy, r1[i], r2, 1)

\* The error of merge, its output when there is none, and no return at all.
MergeFailed == [err |-> TRUE, out |-> NoBytes, panic |-> FALSE]
MergeOk(out) == [err |-> FALSE, out |-> out, panic |-> FALSE]
MergePanicked == [err |-> FALSE, out |-> NoBytes, panic |-> TRUE]

\* merge of merge.go
merge(n, o) ==
    IF IsEmpty(n) THEN MergeOk(o)
    ELSE IF IsEmpty(o) THEN MergeOk(n)
    ELSE LET r1 == Unmarshal(n)
             r2 == Unmarshal(o)
         IN  IF r1.err \/ r2.err THEN MergeFailed
             ELSE IF MergePanics("fill", r1.Results, r2.Results) THEN MergePanicked
             ELSE MergeOk(Marshal(MergeResults("fill", r1.Results, r2.Results)))

\* merge of the other copy: no test for an empty side.
mergeAppend(a, b) ==
    LET r1 == Unmarshal(a)
        r2 == Unmarshal(b)
    IN  IF r1.err \/ r2.err THEN MergeFailed
        ELSE MergeOk(Marshal(MergeResults("append", r1.Results, r2.Results)))

VARIABLES
    Active,     \* hb.Active of each backend
    tickerOn,   \* hb.Ticker is running (not stopped)
    tickC,      \* hb.Ticker.C holds a tick (the channel buffers one)
    probe,      \* where CheckActive is: "wait" on the channel, or in "ping"
    pingResp,   \* what the last Ping of each backend met
    ticks,      \* ticks delivered so far
    rbQueue,    \* the retry buffer's queue of jobs, oldest first
    rbState,    \* the retry buffer's state: "drain" or "backoff"
    posted,     \* per backend, the jobs of the last POST /write it took
    stats,      \* ic.stats
    closing,    \* h.closing
    listener,   \* h.l: "open" or "closed"
    stopPc,     \* where Stop is
    wpc,        \* where the request handler is
    call,       \* the request or call being served
    status,     \* the status code written to the client, 0 when none
    buf,        \* the bytes Write has not read yet
    row,        \* WriteRow's line, key and shard
    idx,        \* WriteRow's position in ic.nodes[c]
    task,       \* per backend, the goroutine WriteRow started for it
    sent,       \* per backend, dispatches of the current line made to it
    saw,        \* per backend, the Active flag WriteRow's loop read for it
    nreq,       \* requests and calls started
    formerOn,   \* cfg.Former is set: ic.formerRing is not nil
    qpc,        \* where Query is
    qreq,       \* the query being served: its text, key and shards
    qidx,       \* Query's position in the list of backends it ranges over
    qsaw,       \* per backend, the Active flag Query's loops read for it
    queried,    \* the calls of HttpBackend.Query made for the query, in order
    pn,         \* the buffer of the current ring's payload
    po,         \* the buffer of the former ring's payload
    pp,         \* the output of merge and the buffer its bytes lie in
    scribbled,  \* the released buffers another handler has written into
    qstatus,    \* the status code written to the client of /query, 0 when none
    qbody,      \* the body written to the client of /query
    rings,      \* instances of consistent.Map
    ringLog,    \* per instance, the calls of Add and Remove made on it
    got,        \* the last call of Get and what it returned
    mIn,        \* the two payloads handed to merge
    mRes,       \* what merge returned
    scanLine,   \* the line handed to ScanKey
    scanned,    \* what ScanKey returned
    snap,       \* the two Statistics structs, one counter of each
    ptr,        \* ic.stats and ic.counter: which struct each points to
    rot,        \* where statistics() is, and what SwapPointer returned to it
    hld,        \* per handler, the value of ic.stats it read for its AddInt64
    added,      \* increments made so far, in all and since the last exchange
    readout,    \* what /stats last showed
    lagging     \* goroutines of earlier lines of the call still running

vars == <<Active, tickerOn, tickC, probe, pingResp, ticks, rbQueue, rbState,
          posted, stats, closing, listener, stopPc, wpc, call, status, buf,
          row, idx, task, sent, saw, nreq, formerOn, qpc, qreq, qidx, qsaw,
          queried, pn, po, pp, scribbled, qstatus, qbody, rings, ringLog, got,
          mIn, mRes, scanLine, scanned, snap, ptr, rot, hld, added, readout, lagging>>

probeVars == <<tickC, probe, pingResp, ticks>>
rbVars == <<rbQueue, rbState, posted>>
stopVars == <<closing, listener, stopPc>>
rowVars == <<row, idx, task, sent, saw>>
callVars == <<wpc, call, status, buf, nreq>>
queryVars == <<formerOn, qpc, qreq, qidx, qsaw, queried, pn, po, pp, scribbled,
               qstatus, qbody>>
ringVars == <<rings, ringLog, got>>
mergeVars == <<mIn, mRes>>
scanVars == <<scanLine, scanned>>
rotVars == <<snap, ptr, rot, hld, added, readout>>
moreVars == <<scanVars, rotVars, lagging>>
restVars == <<queryVars, ringVars, mergeVars, moreVars>>
\* What the query path reads or leaves alone of the rest of the relay.
restOfRelay == <<Active, tickerOn, probeVars, rbVars, stopVars, wpc, call, status,
                 buf, rowVars>>

NoCall == [via |-> "none", valid |-> FALSE, query |-> "", failBase |-> 0]
NoRow == [line |-> <<>>, key |-> <<>>, shard |-> <<>>, failBase |-> 0]

\* NewInfluxCluster's ic.stats after Flush.
ZeroStats == [QueryRequests |-> 0, QueryRequestsFail |-> 0,
              WriteRequests |-> 0, WriteRequestsFail |-> 0,
              PointsWritten |-> 0, PointsWrittenFail |-> 0]

\* No query is being served.
NoQuery == [copy |-> 0, q |-> <<>>, valid |-> FALSE, routed |-> FALSE,
            key |-> <<>>, shard |-> <<>>, formerShard |-> <<>>]
NoPp == [out |-> NoBytes, alias |-> "none"]
NoBody == [text |-> "", payload |-> NoBytes]

\* The instances of the ring the model builds apart from the router's.
RingIds == {"A", "B"}
NoGet == [ring |-> "none", key |-> <<>>, shard |-> <<>>]
NoMerge == [copy |-> "none", err |-> FALSE, out |-> NoBytes, panic |-> FALSE]
NoScan == [key |-> <<>>, err |-> "none"]

\* The two Statistics structs and the handlers that increment them.
Snapshots == {"s1", "s2"}
Handlers == {"h1", "h2"}
NoReadout == [of |-> "none", value |-> 0]

\* The state after NewHTTP: every backend created (Active: true, ticker
\* started, CheckActive running), nothing written yet.
InitRelay ==
    /\ tickerOn = [b \in Backends |-> TRUE]
    /\ tickC = [b \in Backends |-> FALSE]
    /\ probe = [b \in Backends |-> "wait"]
    /\ pingResp = [b \in Backends |-> "none"]
    /\ ticks = 0
    /\ rbQueue = [b \in Backends |-> <<>>]
    /\ rbState = [b \in Backends |-> "drain"]
    /\ posted = [b \in Backends |-> <<>>]
    /\ stats = ZeroStats
    /\ closing = 0
    /\ listener = "open"
    /\ stopPc = "run"
    /\ wpc = "idle"
    /\ call = NoCall
    /\ status = 0
    /\ buf = <<>>
    /\ row = NoRow
    /\ idx = 0
    /\ task = [b \in Backends |-> "none"]
    /\ sent = [b \in Backends |-> 0]
    /\ saw = [b \in Backends |-> "no"]
    /\ nreq = 0

\* No query yet.
InitQueryVars ==
    /\ qpc = "idle"
    /\ qreq = NoQuery
    /\ qidx = 0
    /\ qsaw = [b \in Backends |-> "no"]
    /\ queried = <<>>
    /\ pn = NoBytes
    /\ po = NoBytes
    /\ pp = NoPp
    /\ scribbled = {}
    /\ qstatus = 0
    /\ qbody = NoBody

\* No call of ScanKey yet.
InitScanVars ==
    /\ scanLine = <<>>
    /\ scanned = NoScan

\* Both Statistics structs allocated and zero, ic.stats on the first and
\* ic.counter on the second, statistics() waiting for its first tick.
InitRotVars ==
    /\ snap = [p \in Snapshots |-> 0]
    /\ ptr = [stats |-> "s1", counter |-> "s2"]
    /\ rot = [pc |-> "wait", old |-> "none", n |-> 0]
    /\ hld = [h \in Handlers |-> "none"]
    /\ added = [total |-> 0, interval |-> 0, flushed |-> 0]
    /\ readout = NoReadout

InitMore ==
    /\ InitScanVars
    /\ InitRotVars
    /\ lagging = {}

\* consistent.New for every instance, and no call of merge yet.
InitUnits ==
    /\ rings = [x \in RingIds |-> NewMap]
    /\ ringLog = [x \in RingIds |-> <<>>]
    /\ got = NoGet
    /\ mIn = <<NoBytes, NoBytes>>
    /\ mRes = NoMerge
    /\ InitMore

Init ==
    /\ Active = [b \in Backends |-> TRUE]
    /\ formerOn = TRUE
    /\ InitRelay
    /\ InitQueryVars
    /\ InitUnits

(***************************************************************************)
(* The health probe of a backend.                                          *)
(***************************************************************************)
\* What GET {location}/ping can meet: the call fails; status 204; another
\* status with a readable body; another status whose body cannot be read.
PingResponses == {"get_error", "204", "other_body_ok", "other_body_error"}

\* HttpBackend.Ping: whether it returns an error.
PingStrict(resp) == resp # "204"
Ping(resp) ==
    CASE resp = "get_error" -> TRUE
      [] resp = "204" -> FALSE
      [] resp = "other_body_error" -> TRUE
      [] OTHER -> FALSE

\* The ticker delivers a tick; a tick the channel has no room for is dropped.
TickerFire(b) ==
    /\ tickerOn[b]
    /\ ~tickC[b]
    /\ ticks < MaxTicks
    /\ tickC' = [tickC EXCEPT ![b] = TRUE]
    /\ ticks' = ticks + 1
    /\ UNCHANGED <<restVars, Active, tickerOn, probe, pingResp, rbVars, stats, stopVars,
                   callVars, rowVars>>

\* CheckActive takes a tick from hb.Ticker.C and calls Ping.
ProbeRecv(b) ==
    /\ probe[b] = "wait"
    /\ tickC[b]
    /\ probe' = [probe EXCEPT ![b] = "ping"]
    /\ tickC' = [tickC EXCEPT ![b] = FALSE]
    /\ UNCHANGED <<restVars, Active, tickerOn, pingResp, ticks, rbVars, stats, stopVars,
                   callVars, rowVars>>

\* Ping returns and CheckActive sets hb.Active from its error.
ProbeDone(b, resp) ==
    /\ probe[b] = "ping"
    /\ pingResp' = [pingResp EXCEPT ![b] = resp]
    /\ Active' = [Active EXCEPT ![b] = ~Ping(resp)]
    /\ probe' = [probe EXCEPT ![b] = "wait"]
    /\ UNCHANGED <<restVars, tickerOn, tickC, ticks, rbVars, stats, stopVars,
                   callVars, rowVars>>

(***************************************************************************)
(* Shutdown: HTTP.Stop, InfluxCluster.Close, HttpBackend.Close.            *)
(***************************************************************************)
\* The backends InfluxCluster.Close ranges over.
CloseSet == BackendsOf(nodes)

\* A backend whose Close has run: only Close stops a ticker.
Closed(b) == ~tickerOn[b]

\* Close ranges over the shards in any order and over a shard's backends in
\* order: b is next when its predecessors in its shard are closed and no
\* other shard is half closed.
NextToClose(b) ==
    /\ b \in CloseSet
    /\ ~Closed(b)
    /\ \E c \in DOMAIN nodes :
         /\ b \in Range(nodes[c])
         /\ \A i \in 1..Len(nodes[c]) :
              (\E j \in (i + 1)..Len(nodes[c]) : nodes[c][j] = b) => Closed(nodes[c][i])
         /\ \A d \in DOMAIN nodes \ {c} :
              \/ \A x \in Range(nodes[d]) : Closed(x)
              \/ \A x \in Range(nodes[d]) : ~Closed(x)

\* Stop: atomic.StoreInt64(&h.closing, 1)
StopSetClosing ==
    /\ stopPc = "run"
    /\ closing' = 1
    /\ stopPc' = "closing"
    /\ UNCHANGED <<restVars, Active, tickerOn, probeVars, rbVars, stats, listener,
                   callVars, rowVars>>

\* Stop: h.ic.Close(), one HttpBackend.Close at a time; Close returns after
\* the last one.
CloseBackend(b) ==
    /\ stopPc = "closing"
    /\ NextToClose(b)
    /\ tickerOn' = [tickerOn EXCEPT ![b] = FALSE]
    /\ Active' = [Active EXCEPT ![b] = FALSE]
    /\ stopPc' = IF \A x \in CloseSet \ {b} : Closed(x) THEN "router_closed" ELSE "closing"
    /\ UNCHANGED <<restVars, probeVars, rbVars, stats, closing, listener,
                   callVars, rowVars>>

\* Stop: h.l.Close()
CloseListener ==
    /\ stopPc = "router_closed"
    /\ listener' = "closed"
    /\ stopPc' = "stopped"
    /\ UNCHANGED <<restVars, Active, tickerOn, probeVars, rbVars, stats, closing,
                   callVars, rowVars>>

(***************************************************************************)
(* The retry buffer of a backend.  Its code (relay/retry.go) is not among  *)
(* the sources; it is modelled from the specification: a bounded FIFO of   *)
(* jobs drained in the background, write rejecting a job that does not     *)
(* fit.  A failed POST of the drain is one the backend did not take.       *)
(***************************************************************************)
\* Current byte occupancy of a queue.
Occupancy(q) == SumLen(q)

\* write(job): whether the job fits.
RbFitsNoBound(q, job) == TRUE
RbFits(q, job) == Occupancy(q) + Len(job.line) <= CAP

\* write(job): the queue after the job was accepted.
RbPushFront(q, job) == <<job>> \o q
RbPush(q, job) == Append(q, job)

\* The head batch: the oldest job, and the jobs behind it with the same
\* query string and auth header while the batch stays within BATCH bytes.
RECURSIVE BatchLen(_, _, _)
BatchLen(q, n, size) ==
    IF /\ n < Len(q)
       /\ q[n + 1].query = q[1].query
       /\ q[n + 1].auth = q[1].auth
       /\ size + Len(q[n + 1].line) <= BATCH
    THEN BatchLen(q, n + 1, size + Len(q[n + 1].line))
    ELSE n

HeadBatch(q) == SubSeq(q, 1, BatchLen(q, 1, Len(q[1].line)))

\* Drain: POST the head batch; on success the queue advances, on failure
\* the buffer backs off and the batch stays at the head.
DrainPost(b, ok) ==
    /\ BufferOn(b)
    /\ rbState[b] = "drain"
    /\ rbQueue[b] # <<>>
    /\ LET batch == HeadBatch(rbQueue[b]) IN
       IF ok
       THEN /\ posted' = [posted EXCEPT ![b] = batch]
            /\ rbQueue' = [rbQueue EXCEPT ![b] = SubSeq(@, Len(batch) + 1, Len(@))]
            /\ UNCHANGED rbState
       ELSE /\ rbState' = [rbState EXCEPT ![b] = "backoff"]
            /\ UNCHANGED <<posted, rbQueue>>
    /\ UNCHANGED <<restVars, Active, tickerOn, probeVars, stats, stopVars, callVars,
                   rowVars>>

\* Backoff: the sleep ends and the buffer drains again.
BackoffWake(b) ==
    /\ rbState[b] = "backoff"
    /\ rbState' = [rbState EXCEPT ![b] = "drain"]
    /\ UNCHANGED <<restVars, Active, tickerOn, probeVars, rbQueue, posted, stats,
                   stopVars, callVars, rowVars>>

(***************************************************************************)
(* The HTTP front-end: HandlerWrite up to its call of ic.Write.            *)
(***************************************************************************)
Methods == {"POST", "GET", "OPTIONS"}
BodyKinds == {"plain", "bad_gzip", "read_error"}
Queries == {"db=x", "db=y"}

\* models.ParsePointsWithPrecision is a library outside the repository.  It
\* is modelled from the grammar of the line protocol: a measurement, an
\* unescaped space, and a field with a name and a value.
ParsesAsPoint(line) ==
    \E i \in 2..Len(line) :
        /\ line[i] = " "
        /\ line[i - 1] # "\\"
        /\ \E j \in (i + 2)..(Len(line) - 1) : line[j] = "="

\* p.PrecisionString(precision): a point without a timestamp is written
\* with the receive time.
PrecisionString(line) == line \o <<" ", "9">>

\* outBuf: every point in canonical form, each followed by a newline.
OutBytes(ls) == Join([i \in 1..Len(ls) |-> PrecisionString(ls[i])])

\* The status HandlerWrite answers with before it would call ic.Write, 0
\* when it goes on to call it.
EarlyStatus(method, hasDb, bodyKind, ls) ==
    CASE method = "OPTIONS" -> StatusNoContent
      [] method # "POST" -> StatusMethodNotAllowed
      [] ~hasDb -> StatusBadRequest
      [] bodyKind = "bad_gzip" -> StatusBadRequest
      [] bodyKind = "read_error" -> StatusInternalServerError
      [] \E i \in 1..Len(ls) : ~ParsesAsPoint(ls[i]) -> StatusBadRequest
      [] OTHER -> 0

\* The status HandlerWrite answers with after ic.Write returned, whatever
\* the number of dispatches that failed.
HandlerWriteReplyFailing(failed) ==
    IF failed > 0 THEN StatusInternalServerError ELSE StatusNoContent
HandlerWriteReply(failed) == StatusNoContent

\* What is noted of a call when it starts: who called, whether Write was
\* reached, the query string, and PointsWrittenFail at that moment.
NewCall(via, valid, query) ==
    [via |-> via, valid |-> valid, query |-> query,
     failBase |-> stats.PointsWrittenFail]

\* A request arrives at /write; http.Serve accepts while the listener is
\* open.  HandlerWrite runs up to its return or to the first read of Write.
HandlerWrite(method, hasDb, bodyKind, query, ls) ==
    /\ wpc = "idle"
    /\ listener = "open"
    /\ nreq < MaxRequests
    /\ nreq' = nreq + 1
    /\ LET early == EarlyStatus(method, hasDb, bodyKind, ls) IN
       IF early # 0
       THEN /\ status' = early
            /\ stats' = [stats EXCEPT !.WriteRequestsFail = @ + 1]
            /\ call' = NewCall("http", FALSE, query)
            /\ wpc' = "done"
            /\ buf' = <<>>
       ELSE /\ status' = 0
            /\ stats' = [stats EXCEPT !.WriteRequests = @ + 1]
            /\ call' = NewCall("http", TRUE, query)
            /\ wpc' = "read"
            /\ buf' = OutBytes(ls)
    /\ UNCHANGED <<restVars, Active, tickerOn, probeVars, rbVars, stopVars, rowVars>>

\* InfluxCluster.Write is exported: a caller other than HandlerWrite hands
\* it any payload.
CallWrite(query, ls) ==
    /\ wpc = "idle"
    /\ nreq < MaxRequests
    /\ nreq' = nreq + 1
    /\ status' = 0
    /\ stats' = [stats EXCEPT !.WriteRequests = @ + 1]
    /\ call' = NewCall("api", TRUE, query)
    /\ wpc' = "read"
    /\ buf' = Join(ls)
    /\ UNCHANGED <<restVars, Active, tickerOn, probeVars, rbVars, stopVars, rowVars>>

(***************************************************************************)
(* The router's write path: InfluxCluster.Write and WriteRow.              *)
(***************************************************************************)
\* One turn of Write's loop, and WriteRow up to its loop over the backends:
\* read a line; an empty read ends Write; trim; an empty line is ignored; a
\* scan error is counted; a scan that reads past the end of the line panics;
\* otherwise the key is looked up on the ring.
ReadRow ==
    /\ wpc = "read"
    /\ LET r == ReadBytes(buf)
           line == TrimRight(r.line)
           k == ScanKey(line)
       IN
       IF r.line = <<>>
       THEN /\ wpc' = "done"
            /\ status' = IF call.via = "http"
                         THEN HandlerWriteReply(stats.PointsWrittenFail - call.failBase)
                         ELSE 0
            /\ UNCHANGED <<buf, stats, row, idx>>
       ELSE /\ buf' = r.rest
            /\ status' = 0
            /\ CASE line = <<>> ->
                      UNCHANGED <<wpc, stats, row, idx>>
                 [] line # <<>> /\ k.err = "panic" ->
                      /\ wpc' = "panicked"
                      /\ UNCHANGED <<stats, row, idx>>
                 [] line # <<>> /\ k.err = "EOF" ->
                      /\ stats' = [stats EXCEPT !.PointsWrittenFail = @ + 1]
                      /\ UNCHANGED <<wpc, row, idx>>
                 [] OTHER ->
                      /\ row' = [line |-> line, key |-> k.key,
                                 shard |-> MapGet(ring, k.key),
                                 failBase |-> stats.PointsWrittenFail]
                      /\ idx' = 1
                      /\ wpc' = IF NodesOf(nodes, MapGet(ring, k.key)) = <<>>
                                THEN "wait" ELSE "loop"
                      /\ UNCHANGED stats
    /\ UNCHANGED <<restVars, Active, tickerOn, probeVars, rbVars, stopVars, call, nreq,
                   task, sent, saw>>

\* The backend the range variable b of WriteRow's loop holds.
LoopVar == NodesOf(nodes, row.shard)[idx]

\* One turn of WriteRow's loop: a backend that is not active is skipped,
\* for an active one a goroutine is started.
LoopStep ==
    /\ wpc = "loop"
    /\ LET b == LoopVar IN
       IF Active[b]
       THEN /\ task' = [task EXCEPT ![b] = "run"]
            /\ saw' = [saw EXCEPT ![b] = "active"]
       ELSE /\ saw' = [saw EXCEPT ![b] = "inactive"]
            /\ UNCHANGED task
    /\ IF idx = Len(NodesOf(nodes, row.shard))
       THEN wpc' = "wait" /\ idx' = idx
       ELSE wpc' = wpc /\ idx' = idx + 1
    /\ UNCHANGED <<restVars, Active, tickerOn, probeVars, rbVars, stats, stopVars, call,
                   status, buf, nreq, row, sent>>

\* The backend the goroutine started for t works on: its parameter b, which
\* hides the range variable.
TaskTarget(t, loopVar) == t

\* The job WriteRow hands to a backend.
Job == [line |-> row.line, query |-> call.query, auth |-> ""]

\* The goroutine of a backend with a retry buffer: b.rb.Write.
TaskEnqueue(t) ==
    /\ task[t] = "run"
    /\ LET b == TaskTarget(t, LoopVar) IN
       /\ BufferOn(b)
       /\ sent' = [sent EXCEPT ![b] = @ + 1]
       /\ IF RbFits(rbQueue[b], Job)
          THEN /\ rbQueue' = [rbQueue EXCEPT ![b] = RbPush(@, Job)]
               /\ task' = [task EXCEPT ![t] = "enqueued"]
               /\ UNCHANGED stats
          ELSE /\ task' = [task EXCEPT ![t] = "buffer_full"]
               /\ stats' = [stats EXCEPT !.PointsWrittenFail = @ + 1]
               /\ UNCHANGED rbQueue
    /\ UNCHANGED <<restVars, Active, tickerOn, probeVars, rbState, posted, stopVars,
                   callVars, row, idx, saw>>

\* What a POST of HttpBackend.Write can meet: the request fails before the
\* backend has it; the backend answers 204; the backend answers an error
\* status; the backend answers and the body cannot be read.
DirectOutcomes == {"conn_error", "status_204", "status_5xx", "read_error"}

\* HttpBackend.Write: whether it returns an error.
HttpWriteErrNever(o) == FALSE
HttpWriteErr(o) == o \in {"conn_error", "read_error"}

\* Whether the POST reached the backend.
Arrives(o) == o # "conn_error"

\* The goroutine of a backend without a retry buffer: b.Write.
TaskPost(t, o) ==
    /\ task[t] = "run"
    /\ LET b == TaskTarget(t, LoopVar) IN
       /\ ~BufferOn(b)
       /\ sent' = [sent EXCEPT ![b] = @ + 1]
       /\ posted' = IF Arrives(o) THEN [posted EXCEPT ![b] = <<Job>>] ELSE posted
       /\ task' = [task EXCEPT ![t] = o]
       /\ stats' = IF HttpWriteErr(o)
                   THEN [stats EXCEPT !.PointsWrittenFail = @ + 1]
                   ELSE stats
    /\ UNCHANGED <<restVars, Active, tickerOn, probeVars, rbQueue, rbState, stopVars,
                   callVars, row, idx, saw>>

\* Whether wg.Wait can return: no goroutine of the line is still running.
AllTasksDone == \A b \in Backends : task[b] # "run"

\* wg.Wait returns, PointsWritten is counted and WriteRow returns.
WaitDone ==
    /\ wpc = "wait"
    /\ AllTasksDone
    /\ stats' = [stats EXCEPT !.PointsWritten = @ + 1]
    /\ wpc' = "read"
    /\ row' = NoRow
    /\ idx' = 0
    /\ task' = [b \in Backends |-> "none"]
    /\ sent' = [b \in Backends |-> 0]
    /\ saw' = [b \in Backends |-> "no"]
    /\ UNCHANGED <<restVars, Active, tickerOn, probeVars, rbVars, stopVars, call, status,
                   buf, nreq>>

\* The call is over: Write has returned and the response is complete, or
\* the panic has left Write and taken the goroutine of its caller with it.
Finish ==
    /\ wpc \in {"done", "panicked"}
    /\ wpc' = "idle"
    /\ call' = NoCall
    /\ status' = 0
    /\ buf' = <<>>
    /\ UNCHANGED <<restVars, Active, tickerOn, probeVars, rbVars, stats, stopVars, nreq,
                   rowVars>>

(***************************************************************************)
(* The first copy of WriteRow (src/relay/cluster.go 339-373).  It counts   *)
(* PointsWritten on entry, starts its goroutines and returns without       *)
(* waiting for them; a goroutine calls b.rb.Write whatever b.bufferOn is,   *)
(* and its b is the range variable of the loop, the closure's parameter    *)
(* having no name.  WriteRow is called here for one line at a time, the    *)
(* next call coming after the goroutines of the last one are over.         *)
(***************************************************************************)
\* WriteRow up to its loop over the backends.
CallWriteRowV1(query, rawLine) ==
    /\ wpc = "idle"
    /\ nreq < MaxRequests
    /\ nreq' = nreq + 1
    /\ call' = NewCall("row", TRUE, query)
    /\ status' = 0
    /\ buf' = <<>>
    /\ LET line == TrimRight(rawLine)
           k == ScanKey(line)
       IN
       CASE line = <<>> ->
              /\ stats' = [stats EXCEPT !.PointsWritten = @ + 1]
              /\ wpc' = "returned"
              /\ UNCHANGED <<row, idx>>
         [] line # <<>> /\ k.err = "panic" ->
              /\ stats' = [stats EXCEPT !.PointsWritten = @ + 1]
              /\ wpc' = "panicked"
              /\ UNCHANGED <<row, idx>>
         [] line # <<>> /\ k.err = "EOF" ->
              /\ stats' = [stats EXCEPT !.PointsWritten = @ + 1,
                                        !.PointsWrittenFail = @ + 1]
              /\ wpc' = "returned"
              /\ UNCHANGED <<row, idx>>
         [] OTHER ->
              /\ stats' = [stats EXCEPT !.PointsWritten = @ + 1]
              /\ row' = [line |-> line, key |-> k.key,
                         shard |-> MapGet(ring, k.key),
                         failBase |-> stats.PointsWrittenFail]
              /\ idx' = 1
              /\ wpc' = IF NodesOf(nodes, MapGet(ring, k.key)) = <<>>
                        THEN "returned" ELSE "loop1"
    /\ UNCHANGED <<restVars, Active, tickerOn, probeVars, rbVars, stopVars, task, sent, saw>>

\* One turn of the loop; after the last one WriteRow returns, and the range
\* variable keeps the last backend.
LoopStepV1 ==
    /\ wpc = "loop1"
    /\ LET b == LoopVar IN
       IF Active[b]
       THEN /\ task' = [task EXCEPT ![b] = "run"]
            /\ saw' = [saw EXCEPT ![b] = "active"]
       ELSE /\ saw' = [saw EXCEPT ![b] = "inactive"]
            /\ UNCHANGED task
    /\ IF idx = Len(NodesOf(nodes, row.shard))
       THEN wpc' = "returned" /\ idx' = idx
       ELSE wpc' = wpc /\ idx' = idx + 1
    /\ UNCHANGED <<restVars, Active, tickerOn, probeVars, rbVars, stats, stopVars, call,
                   status, buf, nreq, row, sent>>

\* The backend b of the closure when the goroutine started for t reads it:
\* the range variable, which is one variable for the whole loop when the
\* build is of Go before 1.22 and one for each turn from Go 1.22 on.
CapturedTargets(t, loopVar) == {t, loopVar}

\* The goroutine: b.rb.Write, with PointsWritten counted on success; b.rb
\* is nil for a backend without a retry buffer and nothing is enqueued.
TaskRunV1(t) ==
    /\ task[t] = "run"
    /\ wpc \in {"loop1", "returned"}
    /\ \E b \in CapturedTargets(t, LoopVar) :
         IF BufferOn(b)
         THEN /\ sent' = [sent EXCEPT ![b] = @ + 1]
              /\ IF RbFits(rbQueue[b], Job)
                 THEN /\ rbQueue' = [rbQueue EXCEPT ![b] = RbPush(@, Job)]
                      /\ task' = [task EXCEPT ![t] = "enqueued"]
                      /\ stats' = [stats EXCEPT !.PointsWritten = @ + 1]
                 ELSE /\ task' = [task EXCEPT ![t] = "buffer_full"]
                      /\ stats' = [stats EXCEPT !.PointsWrittenFail = @ + 1]
                      /\ UNCHANGED rbQueue
         ELSE /\ task' = [task EXCEPT ![t] = "nil_rb"]
              /\ UNCHANGED <<sent, rbQueue, stats>>
    /\ UNCHANGED <<restVars, Active, tickerOn, probeVars, rbState, posted, stopVars,
                   callVars, row, idx, saw>>

\* Write of the first copy (310-334) is called with a payload.
CallWriteV1(query, ls) ==
    /\ wpc = "idle"
    /\ nreq < MaxRequests
    /\ nreq' = nreq + 1
    /\ status' = 0
    /\ stats' = [stats EXCEPT !.WriteRequests = @ + 1]
    /\ call' = NewCall("api", TRUE, query)
    /\ wpc' = "read1"
    /\ buf' = Join(ls)
    /\ UNCHANGED <<restVars, Active, tickerOn, probeVars, rbVars, stopVars, rowVars>>

\* The goroutines of the current line that have not run yet, each with what
\* its closure refers to: the range variable of its call of WriteRow, the
\* line and the query.
StillRunning ==
    {[t |-> t, lv |-> LoopVar, job |-> Job, at |-> Len(buf)] :
        t \in {b \in Backends : task[b] = "run"}}

\* Write's loop: WriteRow has returned, nothing waits for its goroutines;
\* Write reads the next line and calls WriteRow for it.
ReadRowV1 ==
    /\ wpc \in {"read1", "returned"}
    /\ call.via = "api"
    /\ buf # <<>>
    /\ lagging' = lagging \cup StillRunning
    /\ task' = [b \in Backends |-> "none"]
    /\ sent' = [b \in Backends |-> 0]
    /\ saw' = [b \in Backends |-> "no"]
    /\ buf' = ReadBytes(buf).rest
    /\ LET line == TrimRight(ReadBytes(buf).line)
           k == ScanKey(line)
       IN
       CASE line = <<>> ->
              /\ stats' = [stats EXCEPT !.PointsWritten = @ + 1]
              /\ wpc' = "returned"
              /\ row' = NoRow
              /\ idx' = 0
         [] line # <<>> /\ k.err = "panic" ->
              /\ stats' = [stats EXCEPT !.PointsWritten = @ + 1]
              /\ wpc' = "panicked"
              /\ row' = NoRow
              /\ idx' = 0
         [] line # <<>> /\ k.err = "EOF" ->
              /\ stats' = [stats EXCEPT !.PointsWritten = @ + 1,
                                        !.PointsWrittenFail = @ + 1]
              /\ wpc' = "returned"
              /\ row' = NoRow
              /\ idx' = 0
         [] OTHER ->
              /\ stats' = [stats EXCEPT !.PointsWritten = @ + 1]
              /\ row' = [line |-> line, key |-> k.key,
                         shard |-> MapGet(ring, k.key),
                         failBase |-> stats.PointsWrittenFail]
              /\ idx' = 1
              /\ wpc' = IF NodesOf(nodes, MapGet(ring, k.key)) = <<>>
                        THEN "returned" ELSE "loop1"
    /\ UNCHANGED <<queryVars, ringVars, mergeVars, scanVars, rotVars, Active, tickerOn,
                   probeVars, rbVars, stopVars, call, status, nreq>>

\* A goroutine started for an earlier line of the call runs: b.rb.Write with
\* the line of its own call of WriteRow.
LaggingRunV1(g) ==
    /\ g \in lagging
    /\ lagging' = lagging \ {g}
    /\ \E b \in CapturedTargets(g.t, g.lv) :
         IF BufferOn(b)
         THEN IF RbFits(rbQueue[b], g.job)
              THEN /\ rbQueue' = [rbQueue EXCEPT ![b] = RbPush(@, g.job)]
                   /\ stats' = [stats EXCEPT !.PointsWritten = @ + 1]
              ELSE /\ stats' = [stats EXCEPT !.PointsWrittenFail = @ + 1]
                   /\ UNCHANGED rbQueue
         ELSE UNCHANGED <<rbQueue, stats>>
    /\ UNCHANGED <<queryVars, ringVars, mergeVars, scanVars, rotVars, Active, tickerOn,
                   probeVars, rbState, posted, stopVars, callVars, rowVars>>

\* Write or WriteRow has returned and the goroutines are over.
FinishV1 ==
    /\ wpc = "returned"
    /\ buf = <<>>
    /\ AllTasksDone
    /\ lagging = {}
    /\ wpc' = "idle"
    /\ call' = NoCall
    /\ row' = NoRow
    /\ idx' = 0
    /\ task' = [b \in Backends |-> "none"]
    /\ sent' = [b \in Backends |-> 0]
    /\ saw' = [b \in Backends |-> "no"]
    /\ UNCHANGED <<restVars, Active, tickerOn, probeVars, rbVars, stats, stopVars,
                   status, buf, nreq>>

(***************************************************************************)
(* The query path: HTTP.HandlerQuery and InfluxCluster.Query.  A query is  *)
(* the byte string of the form value q.                                    *)
(***************************************************************************)
StatusOK == 200

\* The words the patterns are made of.
WSelect == <<"s", "e", "l", "e", "c", "t">>
WDelete == <<"d", "e", "l", "e", "t", "e">>
WDrop == <<"d", "r", "o", "p">>
WGrant == <<"g", "r", "a", "n", "t">>
WRevoke == <<"r", "e", "v", "o", "k", "e">>
WWhere == <<"w", "h", "e", "r", "e">>
WTime == <<"t", "i", "m", "e">>
WShow == <<"s", "h", "o", "w">>
WFrom == <<"f", "r", "o", "m">>
WMeasurements == <<"m", "e", "a", "s", "u", "r", "e", "m", "e", "n", "t", "s">>

\* The letters of a pattern under (?i: ) match either case.
UpperToLower == ("D" :> "d") @@ ("R" :> "r") @@ ("O" :> "o") @@ ("P" :> "p")
Lower(c) == IF c \in DOMAIN UpperToLower THEN UpperToLower[c] ELSE c

\* \s of a pattern, and the space strings.TrimSpace cuts.
IsSpace(c) == c \in {" ", "\t", "\n", "\r", "\f"}

\* The word w matches at index i of s.
WordAt(s, i, w) ==
    /\ i >= 1
    /\ i + Len(w) - 1 <= Len(s)
    /\ \A j \in 1..Len(w) : Lower(s[i + j - 1]) = w[j]

\* first.*second: the two words in this order on one line.
MatchesThen(s, first, second) ==
    \E i \in 1..Len(s), j \in 1..Len(s) :
        /\ WordAt(s, i, first)
        /\ j >= i + Len(first)
        /\ WordAt(s, j, second)
        /\ \A k \in (i + Len(first))..(j - 1) : s[k] # "\n"

\* ^\s*word
MatchesLeading(s, w) ==
    \E i \in 1..Len(s) :
        /\ WordAt(s, i, w)
        /\ \A k \in 1..(i - 1) : IsSpace(s[k])

\* ForbidCmd: select\s+\*, a leading delete, drop, grant or revoke, or the
\* three bytes ()$.
MatchesForbidCmd(s) ==
    \/ \E i \in 1..Len(s), j \in 1..Len(s) :
          /\ WordAt(s, i, WSelect)
          /\ j > i + Len(WSelect)
          /\ s[j] = "*"
          /\ \A k \in (i + Len(WSelect))..(j - 1) : IsSpace(s[k])
    \/ \E w \in {WDelete, WDrop, WGrant, WRevoke} : MatchesLeading(s, w)
    \/ \E i \in 1..(Len(s) - 2) : s[i] = "(" /\ s[i + 1] = ")" /\ s[i + 2] = "$"

\* SupportCmd: where.*time or show.*from
MatchesSupportCmd(s) ==
    MatchesThen(s, WWhere, WTime) \/ MatchesThen(s, WShow, WFrom)

\* ExecutorCmd: show.*measurements
MatchesExecutorCmd(s) == MatchesThen(s, WShow, WMeasurements)

\* strings.TrimSpace
RECURSIVE TrimSpace(_)
TrimSpace(s) ==
    IF s = <<>> THEN s
    ELSE IF IsSpace(s[1]) THEN TrimSpace(Tail(s))
    ELSE IF IsSpace(s[Len(s)]) THEN TrimSpace(SubSeq(s, 1, Len(s) - 1))
    ELSE s

\* The end of the identifier that starts at index i.
RECURSIVE IdentEnd(_, _)
IdentEnd(s, i) ==
    IF i > Len(s) \/ IsSpace(s[i]) THEN i - 1 ELSE IdentEnd(s, i + 1)

\* GetMeasurementFromInfluxQL is not among the sources; it is modelled from
\* the specification: the identifier after the first FROM, without its
\* quotes, and an error when there is none.
GetMeasurementFromInfluxQL(q) ==
    LET at == {i \in 2..Len(q) :
                  /\ WordAt(q, i, WFrom)
                  /\ IsSpace(q[i - 1])
                  /\ i + Len(WFrom) + 1 <= Len(q)
                  /\ IsSpace(q[i + Len(WFrom)])
                  /\ ~IsSpace(q[i + Len(WFrom) + 1])}
    IN  IF at = {} THEN [key |-> <<>>, err |-> TRUE]
        ELSE LET i == CHOOSE x \in at : \A y \in at : x <= y
                 from == i + Len(WFrom) + 1
                 ident == SubSeq(q, from, IdentEnd(q, from))
                 bare == SelectSeq(ident, LAMBDA c : c # "\"")
             IN  [key |-> bare, err |-> bare = <<>>]

\* The queries a client sends.
QSelect == <<"s", "e", "l", "e", "c", "t", " ", "v", " ", "f", "r", "o", "m", " ", "g">>
QSelectF == <<"s", "e", "l", "e", "c", "t", " ", "v", " ", "f", "r", "o", "m", " ", "f">>
QStar == <<"s", "e", "l", "e", "c", "t", " ", "*", " ", "f", "r", "o", "m", " ", "c", "p", "u">>
QDrop == <<" ", "D", "R", "O", "P", " ", "m", "e", "a", "s", "u", "r", "e", "m", "e", "n", "t", " ", "g">>
QBlank == <<" ", " ">>
QNoFrom == <<"s", "e", "l", "e", "c", "t", " ", "v">>
QTime == <<"s", "e", "l", "e", "c", "t", " ", "v", " ", "f", "r", "o", "m", " ", "g", " ", "w", "h", "e", "r", "e", " ", "t", "i", "m", "e", ">", "0">>
QShow == <<"s", "h", "o", "w", " ", "m", "e", "a", "s", "u", "r", "e", "m", "e", "n", "t", "s", " ", "f", "r", "o", "m", " ", "g">>
QShowAll == <<"s", "h", "o", "w", " ", "m", "e", "a", "s", "u", "r", "e", "m", "e", "n", "t", "s">>

QueryTexts == {QSelect, QSelectF, QStar, QDrop, QBlank, QNoFrom, QTime, QShow,
               QShowAll}

\* The bodies a database answers a query with: nothing, bytes that are not
\* JSON, and two result sets with a null each.
DocNew == Doc("sent", <<[statement_id |-> 0,
                         series |-> <<[name |-> "g",
                                       values |-> <<<<"t1", "null">>, <<"t2", "2">>>>]>>]>>)
DocOld == Doc("sent", <<[statement_id |-> 0,
                         series |-> <<[name |-> "g",
                                       values |-> <<<<"t1", "1">>, <<"t2", "null">>>>]>>]>>)
QueryBodies == {NoBytes, NotJson, DocNew, DocOld}

\* What HttpBackend.Query and the read of the body can meet: the round trip
\* fails; a response arrives, with a status and a body; a response arrives
\* and its body cannot be read to the end.
QueryOutcomes ==
    {[kind |-> "error", code |-> 0, body |-> NoBytes]}
    \cup {[kind |-> "resp", code |-> c, body |-> p] :
             c \in {StatusOK, StatusInternalServerError}, p \in QueryBodies}
    \cup {[kind |-> "unreadable", code |-> StatusOK, body |-> NoBytes]}

\* w.WriteHeader(code): the first status written is the one sent.
WriteHeader(st, code) == IF st = 0 THEN code ELSE st

\* The status sent when the handler returns: 200 when it wrote none.
Returned(st) == IF st = 0 THEN StatusOK ELSE st

ErrBody(text) == [text |-> text, payload |-> NoBytes]
DataBody(p) == [text |-> "", payload |-> p]

\* The bytes of a buffer that another handler took from the pool and wrote
\* into.
Overwritten == [kind |-> "text", form |-> "overwritten", results |-> <<>>]

\* InfluxCluster.CheckQuery of the second copy, the list of forbidden
\* patterns holding ForbidCmd: whether it returns ErrQueryForbidden.
CheckQuery(q) == MatchesForbidCmd(q)

\* CheckQuery of the first copy, the list of obligated patterns holding
\* SupportCmd.
CheckQueryV1(q) == MatchesForbidCmd(q) \/ ~MatchesSupportCmd(q)

\* What HandlerQuery answers before it calls Query; code 0 when it calls it.
EarlyQueryStatus(method, hasDb) ==
    IF method \notin {"GET", "POST"}
    THEN [code |-> StatusMethodNotAllowed, text |-> "{\"error\":\"invalid method\"}", fail |-> 1]
    ELSE IF ~hasDb
    THEN [code |-> StatusBadRequest, text |-> "{\"error\":\"missing parameter: db\"}", fail |-> 1]
    ELSE [code |-> 0, text |-> "", fail |-> 0]

\* What Query of the second copy answers before it routes the query, and
\* what it adds to QueryRequestsFail; code 0 when it routes it.
QueryPolicy(q) ==
    CASE q = <<>> ->
           [code |-> StatusBadRequest, text |-> "empty query", fail |-> 1]
      [] q # <<>> /\ CheckQuery(q) ->
           [code |-> StatusBadRequest, text |-> "query forbidden", fail |-> 1]
      [] q # <<>> /\ ~CheckQuery(q) /\ GetMeasurementFromInfluxQL(q).err ->
           [code |-> StatusBadRequest, text |-> "can't get measurement", fail |-> 1]
      [] OTHER -> [code |-> 0, text |-> "", fail |-> 0]

\* Query of the first copy: a query that does not match ExecutorCmd is
\* answered "not a cluster query" and not counted as failed.
QueryPolicyV1(q) ==
    CASE q = <<>> ->
           [code |-> StatusBadRequest, text |-> "empty query", fail |-> 1]
      [] q # <<>> /\ ~MatchesExecutorCmd(q) ->
           [code |-> StatusBadRequest, text |-> "not a cluster query", fail |-> 0]
      [] q # <<>> /\ MatchesExecutorCmd(q) /\ CheckQueryV1(q) ->
           [code |-> StatusBadRequest, text |-> "query forbidden", fail |-> 1]
      [] q # <<>> /\ MatchesExecutorCmd(q) /\ ~CheckQueryV1(q)
            /\ GetMeasurementFromInfluxQL(q).err ->
           [code |-> StatusBadRequest, text |-> "can't get measurement", fail |-> 1]
      [] OTHER -> [code |-> 0, text |-> "", fail |-> 0]

\* Where Query goes after the loop over the current ring's shard.
AfterCurrent(formerShard) ==
    IF formerOn /\ NodesOf(formerNodes, formerShard) # <<>> THEN "former" ELSE "merge"

\* A request arrives at /query: HandlerQuery, and Query up to its first
\* loop.  early is what the front-end decided, policy what Query decided, n
\* what Query adds to QueryRequests on entry.
ServeQuery(copy, early, policy, n, q) ==
    /\ qpc = "idle"
    /\ listener = "open"
    /\ nreq < MaxRequests
    /\ nreq' = nreq + 1
    /\ IF early.code # 0
       THEN /\ qstatus' = early.code
            /\ qbody' = ErrBody(early.text)
            /\ stats' = [stats EXCEPT !.QueryRequestsFail = @ + early.fail]
            /\ qreq' = [NoQuery EXCEPT !.copy = copy, !.q = q]
            /\ qpc' = "done"
            /\ UNCHANGED qidx
       ELSE IF policy.code # 0
       THEN /\ qstatus' = policy.code
            /\ qbody' = ErrBody(policy.text)
            /\ stats' = [stats EXCEPT !.QueryRequests = @ + n,
                                      !.QueryRequestsFail = @ + policy.fail]
            /\ qreq' = [NoQuery EXCEPT !.copy = copy, !.q = q, !.valid = TRUE]
            /\ qpc' = "done"
            /\ UNCHANGED qidx
       ELSE LET key == GetMeasurementFromInfluxQL(q).key
                shard == MapGet(ring, key)
                formerShard == IF formerOn THEN MapGet(formerRing, key) ELSE <<>>
            IN  /\ qreq' = [copy |-> copy, q |-> q, valid |-> TRUE, routed |-> TRUE,
                            key |-> key, shard |-> shard, formerShard |-> formerShard]
                /\ stats' = [stats EXCEPT !.QueryRequests = @ + n]
                /\ qidx' = 1
                /\ qpc' = IF NodesOf(nodes, shard) # <<>>
                          THEN "cur" ELSE AfterCurrent(formerShard)
                /\ UNCHANGED <<qstatus, qbody>>
    /\ UNCHANGED <<restOfRelay, formerOn, qsaw, queried, pn, po, pp, scribbled,
                   ringVars, mergeVars, moreVars>>

\* HandlerQuery with Query of the second copy.
HandlerQuery(method, hasDb, rawq) ==
    ServeQuery(2, EarlyQueryStatus(method, hasDb), QueryPolicy(TrimSpace(rawq)), 0,
               TrimSpace(rawq))

\* HandlerQuery with Query of the first copy, which counts the request on
\* entry.
HandlerQueryV1(method, hasDb, rawq) ==
    ServeQuery(1, EarlyQueryStatus(method, hasDb), QueryPolicyV1(TrimSpace(rawq)), 1,
               TrimSpace(rawq))

\* The backends Query ranges over in the loop it is in.
QueryList ==
    IF qpc = "cur" THEN NodesOf(nodes, qreq.shard)
    ELSE NodesOf(formerNodes, qreq.formerShard)

\* One turn of a loop of Query over the backends of a shard: a backend that
\* is not active is passed over; an active one is queried; a failed round
\* trip leads to the next backend; a response ends the loop, its status is
\* written to the client and its body into the buffer; a body that cannot
\* be read ends Query.
QueryTurn ==
    /\ qpc \in {"cur", "former"}
    /\ LET n == QueryList[qidx]
           after == IF qpc = "cur" THEN AfterCurrent(qreq.formerShard) ELSE "merge"
           onward == IF qidx = Len(QueryList)
                     THEN qpc' = after /\ qidx' = 1
                     ELSE qpc' = qpc /\ qidx' = qidx + 1
       IN  IF ~Active[n]
           THEN /\ qsaw' = [qsaw EXCEPT ![n] = "inactive"]
                /\ onward
                /\ UNCHANGED <<queried, pn, po, qstatus>>
           ELSE \E o \in QueryOutcomes :
                /\ qsaw' = [qsaw EXCEPT ![n] = "active"]
                /\ queried' = Append(queried, [ring |-> qpc, b |-> n, o |-> o])
                /\ CASE o.kind = "error" ->
                          /\ onward
                          /\ UNCHANGED <<pn, po, qstatus>>
                     [] o.kind = "unreadable" ->
                          /\ qpc' = "done"
                          /\ qstatus' = Returned(qstatus)
                          /\ UNCHANGED <<qidx, pn, po>>
                     [] OTHER ->
                          /\ qstatus' = WriteHeader(qstatus, o.code)
                          /\ pn' = IF qpc = "cur" THEN o.body ELSE pn
                          /\ po' = IF qpc = "former" THEN o.body ELSE po
                          /\ qpc' = after
                          /\ qidx' = 1
    /\ UNCHANGED <<restOfRelay, stats, nreq, formerOn, qreq, pp, scribbled, qbody,
                   ringVars, mergeVars, moreVars>>

\* The buffer the bytes of merge's output lie in: merge hands back the
\* slice of the other side when one side is empty.
AliasOf(n, o) == IF IsEmpty(n) THEN "po" ELSE IF IsEmpty(o) THEN "pn" ELSE "none"

\* Query calls merge.  On an error it writes 400 and the error text and
\* returns; otherwise it puts both buffers back into the pool.
QueryMerge ==
    /\ qpc = "merge"
    /\ LET r == merge(pn, po) IN
       IF r.err
       THEN /\ qstatus' = WriteHeader(qstatus, StatusBadRequest)
            /\ qbody' = ErrBody(IF qreq.copy = 1 THEN "query merge failed"
                                ELSE "merge query failed")
            /\ qpc' = "done"
            /\ UNCHANGED pp
       ELSE /\ pp' = [out |-> r.out, alias |-> AliasOf(pn, po)]
            /\ qpc' = "reply"
            /\ UNCHANGED <<qstatus, qbody>>
    /\ UNCHANGED <<restOfRelay, stats, nreq, formerOn, qreq, qidx, qsaw, queried,
                   pn, po, scribbled, ringVars, mergeVars, moreVars>>

\* Another request is served meanwhile: its handler takes a buffer Query has
\* put back from the pool and writes into it.
PoolReuse(name) ==
    /\ qpc = "reply"
    /\ name \notin scribbled
    /\ scribbled' = scribbled \cup {name}
    /\ UNCHANGED <<restOfRelay, stats, nreq, formerOn, qpc, qreq, qidx, qsaw,
                   queried, pn, po, pp, qstatus, qbody, ringVars, mergeVars, moreVars>>

\* Query writes the output of merge to the client and counts the request.
QueryReply ==
    /\ qpc = "reply"
    /\ qstatus' = WriteHeader(qstatus, StatusOK)
    /\ qbody' = DataBody(IF pp.alias \in scribbled /\ ~IsEmpty(pp.out)
                         THEN Overwritten ELSE pp.out)
    /\ stats' = [stats EXCEPT !.QueryRequests = @ + 1]
    /\ qpc' = "done"
    /\ UNCHANGED <<restOfRelay, nreq, formerOn, qreq, qidx, qsaw, queried, pn, po,
                   pp, scribbled, ringVars, mergeVars, moreVars>>

\* The response is complete.
QueryFinish ==
    /\ qpc = "done"
    /\ qpc' = "idle"
    /\ qreq' = NoQuery
    /\ qidx' = 0
    /\ qsaw' = [b \in Backends |-> "no"]
    /\ queried' = <<>>
    /\ pn' = NoBytes
    /\ po' = NoBytes
    /\ pp' = NoPp
    /\ scribbled' = {}
    /\ qstatus' = 0
    /\ qbody' = NoBody
    /\ UNCHANGED <<restOfRelay, stats, nreq, formerOn, ringVars, mergeVars, moreVars>>

\* The router as NewInfluxCluster leaves it for any configuration of the
\* former ring, its backends in any state of health.
InitAnyHealth ==
    /\ Active \in [Backends -> BOOLEAN]
    /\ formerOn \in BOOLEAN
    /\ InitRelay
    /\ InitQueryVars
    /\ InitUnits

(***************************************************************************)
(* The ring and the merge engine on their own.  Ring A takes any calls of  *)
(* Add and Remove; ring B is built as NewInfluxCluster builds one, by one  *)
(* Add for each shard, the shards coming in the order of the iteration of  *)
(* a Go map, which is any order.  merge is called once on two payloads.    *)
(***************************************************************************)
RingShards == {<<"b">>, ShardX, ShardY}
RingKeys == {<<"g">>, <<"s">>}

\* The shards added to a ring so far.
AddedTo(x) == {ringLog[x][i][2] : i \in {j \in 1..Len(ringLog[x]) : ringLog[x][j][1] = "Add"}}

RingAdd(x, s) ==
    /\ Len(ringLog[x]) < MaxRingOps
    /\ x = "B" => s \notin AddedTo(x)
    /\ rings' = [rings EXCEPT ![x] = MapAdd(@, s)]
    /\ ringLog' = [ringLog EXCEPT ![x] = Append(@, <<"Add", s>>)]
    /\ UNCHANGED <<Active, tickerOn, probeVars, rbVars, stats, stopVars, callVars,
                   rowVars, queryVars, got, mergeVars, moreVars>>

RingRemove(x, s) ==
    /\ Len(ringLog[x]) < MaxRingOps
    /\ x = "A"
    /\ rings' = [rings EXCEPT ![x] = MapRemove(@, s)]
    /\ ringLog' = [ringLog EXCEPT ![x] = Append(@, <<"Remove", s>>)]
    /\ UNCHANGED <<Active, tickerOn, probeVars, rbVars, stats, stopVars, callVars,
                   rowVars, queryVars, got, mergeVars, moreVars>>

RingGet(x, k) ==
    /\ got' = [ring |-> x, key |-> k, shard |-> MapGet(rings[x], k)]
    /\ UNCHANGED <<Active, tickerOn, probeVars, rbVars, stats, stopVars, callVars,
                   rowVars, queryVars, rings, ringLog, mergeVars, moreVars>>

\* A test or a caller hands merge any two payloads.
InitMerge ==
    /\ Active = [b \in Backends |-> TRUE]
    /\ formerOn = TRUE
    /\ InitRelay
    /\ InitQueryVars
    /\ rings = [x \in RingIds |-> NewMap]
    /\ ringLog = [x \in RingIds |-> <<>>]
    /\ got = NoGet
    /\ mIn \in Payloads \X Payloads
    /\ mRes = NoMerge
    /\ InitMore

\* merge is handed two result sets, both well formed and not empty.
InitMergeFrame ==
    /\ Active = [b \in Backends |-> TRUE]
    /\ formerOn = TRUE
    /\ InitRelay
    /\ InitQueryVars
    /\ rings = [x \in RingIds |-> NewMap]
    /\ ringLog = [x \in RingIds |-> <<>>]
    /\ got = NoGet
    /\ mIn \in FramePayloads \X FramePayloads
    /\ mRes = NoMerge
    /\ InitMore

\* The bytes of the lines handed to the key scan: an ordinary byte and the
\* three the scan treats specially.
ScanBytes == {"m", " ", ",", "\\"}

\* Long enough for a name of MaxName bytes with every byte escaped, the
\* comma and one byte of tags.
ScanLen == 2 * MaxName + 2

ScanLines == UNION {[1..n -> ScanBytes] : n \in 0..ScanLen}

\* A test or a caller hands ScanKey any line.
InitScan ==
    /\ Active = [b \in Backends |-> TRUE]
    /\ formerOn = TRUE
    /\ InitRelay
    /\ InitQueryVars
    /\ rings = [x \in RingIds |-> NewMap]
    /\ ringLog = [x \in RingIds |-> <<>>]
    /\ got = NoGet
    /\ mIn = <<NoBytes, NoBytes>>
    /\ mRes = NoMerge
    /\ scanLine \in ScanLines
    /\ scanned = NoScan
    /\ InitRotVars
    /\ lagging = {}

\* ScanKey is called.
CallScanKey ==
    /\ scanned = NoScan
    /\ scanned' = ScanKey(scanLine)
    /\ UNCHANGED <<Active, tickerOn, probeVars, rbVars, stats, stopVars, callVars,
                   rowVars, queryVars, ringVars, mergeVars, scanLine, rotVars,
                   lagging>>

(***************************************************************************)
(* The rotation of the statistics (first copy, cluster.go 127-148) beside  *)
(* the handlers that count.  One counter of the struct is followed; the    *)
(* others are handled alike.  added is history: the increments made in all *)
(* and since the last exchange, and what Flush has zeroed.                 *)
(***************************************************************************)
\* statistics(): a tick is received and Flush zeroes *ic.counter.
TickFlush ==
    /\ rot.pc = "wait"
    /\ rot.n < MaxRotations
    /\ snap' = [snap EXCEPT ![ptr.counter] = 0]
    /\ added' = [added EXCEPT !.flushed = @ + snap[ptr.counter]]
    /\ rot' = [rot EXCEPT !.pc = "flushed"]
    /\ UNCHANGED <<Active, tickerOn, probeVars, rbVars, stats, stopVars, callVars,
                   rowVars, queryVars, ringVars, mergeVars, scanVars, ptr, hld,
                   readout, lagging>>

\* statistics(): atomic.SwapPointer(&ic.stats, ic.counter) stores ic.counter
\* into ic.stats and returns what ic.stats was.
TickSwap ==
    /\ rot.pc = "flushed"
    /\ ptr' = [ptr EXCEPT !.stats = ptr.counter]
    /\ rot' = [rot EXCEPT !.pc = "swapped", !.old = ptr.stats]
    /\ added' = [added EXCEPT !.interval = 0]
    /\ UNCHANGED <<Active, tickerOn, probeVars, rbVars, stats, stopVars, callVars,
                   rowVars, queryVars, ringVars, mergeVars, scanVars, snap, hld,
                   readout, lagging>>

\* statistics(): ic.counter = the pointer SwapPointer returned.
TickStore ==
    /\ rot.pc = "swapped"
    /\ ptr' = [ptr EXCEPT !.counter = rot.old]
    /\ rot' = [pc |-> "wait", old |-> "none", n |-> rot.n + 1]
    /\ UNCHANGED <<Active, tickerOn, probeVars, rbVars, stats, stopVars, callVars,
                   rowVars, queryVars, ringVars, mergeVars, scanVars, snap, hld,
                   added, readout, lagging>>

\* A handler evaluates &ic.stats.X, the argument of atomic.AddInt64: it
\* reads the pointer ic.stats.
HandlerLoad(h) ==
    /\ hld[h] = "none"
    /\ added.total + Cardinality({g \in Handlers : hld[g] # "none"}) < MaxAdds
    /\ hld' = [hld EXCEPT ![h] = ptr.stats]
    /\ UNCHANGED <<Active, tickerOn, probeVars, rbVars, stats, stopVars, callVars,
                   rowVars, queryVars, ringVars, mergeVars, scanVars, snap, ptr, rot,
                   added, readout, lagging>>

\* atomic.AddInt64 adds one to the counter of the struct the handler read.
HandlerAdd(h) ==
    /\ hld[h] # "none"
    /\ snap' = [snap EXCEPT ![hld[h]] = @ + 1]
    /\ hld' = [hld EXCEPT ![h] = "none"]
    /\ added' = [added EXCEPT !.total = @ + 1, !.interval = @ + 1]
    /\ UNCHANGED <<Active, tickerOn, probeVars, rbVars, stats, stopVars, callVars,
                   rowVars, queryVars, ringVars, mergeVars, scanVars, ptr, rot,
                   readout, lagging>>

\* HandlerCounter reads h.ic.counter.X for /stats.
HandlerCounter ==
    /\ readout' = [of |-> ptr.counter, value |-> snap[ptr.counter]]
    /\ UNCHANGED <<Active, tickerOn, probeVars, rbVars, stats, stopVars, callVars,
                   rowVars, queryVars, ringVars, mergeVars, scanVars, snap, ptr, rot,
                   hld, added, lagging>>

\* merge of merge.go is called.
CallMerge ==
    /\ mRes = NoMerge
    /\ LET r == merge(mIn[1], mIn[2]) IN
       mRes' = [copy |-> "merge.go", err |-> r.err, out |-> r.out, panic |-> r.panic]
    /\ UNCHANGED <<Active, tickerOn, probeVars, rbVars, stats, stopVars, callVars,
                   rowVars, queryVars, ringVars, mIn, moreVars>>

\* merge of the other copy is called.
CallMergeAppend ==
    /\ mRes = NoMerge
    /\ LET r == mergeAppend(mIn[1], mIn[2]) IN
       mRes' = [copy |-> "other", err |-> r.err, out |-> r.out, panic |-> r.panic]
    /\ UNCHANGED <<Active, tickerOn, probeVars, rbVars, stats, stopVars, callVars,
                   rowVars, queryVars, ringVars, mIn, moreVars>>

(***************************************************************************)
(* The specifications.  Next is the whole relay.  The probes touch only    *)
(* Active and their own variables and the write path only reads Active,    *)
(* so the relay is also checked in two parts that share the shutdown:      *)
(* SpecRouter is the front-end, the write path and the retry buffers,      *)
(* SpecProbe the health probes.  SpecFirstCopy is the router with the      *)
(* first copy of WriteRow in the place of the second.                      *)
(***************************************************************************)
NextStop ==
    \/ StopSetClosing
    \/ \E b \in Backends : CloseBackend(b)
    \/ CloseListener

NextProbe ==
    \/ \E b \in Backends : TickerFire(b)
    \/ \E b \in Backends : ProbeRecv(b)
    \/ \E b \in Backends, resp \in PingResponses : ProbeDone(b, resp)

NextRouter ==
    \/ \E b \in Backends, ok \in BOOLEAN : DrainPost(b, ok)
    \/ \E b \in Backends : BackoffWake(b)
    \/ \E m \in Methods, d \in BOOLEAN, k \in BodyKinds, q \in Queries,
          ls \in LineSeqs(HttpLines) : HandlerWrite(m, d, k, q, ls)
    \/ \E q \in Queries, ls \in LineSeqs(ApiLines) : CallWrite(q, ls)
    \/ ReadRow
    \/ LoopStep
    \/ \E t \in Backends : TaskEnqueue(t)
    \/ \E t \in Backends, o \in DirectOutcomes : TaskPost(t, o)
    \/ WaitDone
    \/ Finish

NextFirstCopy ==
    \/ \E b \in Backends, ok \in BOOLEAN : DrainPost(b, ok)
    \/ \E b \in Backends : BackoffWake(b)
    \/ \E q \in Queries, l \in ApiLines : CallWriteRowV1(q, l)
    \/ LoopStepV1
    \/ \E t \in Backends : TaskRunV1(t)
    \/ FinishV1
    \/ Finish

Next == NextStop \/ NextProbe \/ NextRouter

Spec == Init /\ [][Next]_vars

SpecRouter == Init /\ [][NextStop \/ NextRouter]_vars

SpecProbe == Init /\ [][NextStop \/ NextProbe]_vars

SpecFirstCopy == Init /\ [][NextStop \/ NextFirstCopy]_vars

NextFirstCopyWrite ==
    \/ \E b \in Backends, ok \in BOOLEAN : DrainPost(b, ok)
    \/ \E b \in Backends : BackoffWake(b)
    \/ \E q \in Queries, ls \in LineSeqs(ApiLines) : CallWriteV1(q, ls)
    \/ ReadRowV1
    \/ LoopStepV1
    \/ \E t \in Backends : TaskRunV1(t)
    \/ \E g \in lagging : LaggingRunV1(g)
    \/ FinishV1

SpecFirstCopyWrite == Init /\ [][NextStop \/ NextFirstCopyWrite]_vars

NextQuery ==
    \/ \E m \in Methods, d \in BOOLEAN, q \in QueryTexts : HandlerQuery(m, d, q)
    \/ QueryTurn
    \/ QueryMerge
    \/ \E name \in {"pn", "po"} : PoolReuse(name)
    \/ QueryReply
    \/ QueryFinish

NextQueryFirstCopy ==
    \/ \E m \in Methods, d \in BOOLEAN, q \in QueryTexts : HandlerQueryV1(m, d, q)
    \/ QueryTurn
    \/ QueryMerge
    \/ \E name \in {"pn", "po"} : PoolReuse(name)
    \/ QueryReply
    \/ QueryFinish

SpecQuery == InitAnyHealth /\ [][NextQuery]_vars

SpecQueryFirstCopy == InitAnyHealth /\ [][NextQueryFirstCopy]_vars

NextRing ==
    \/ \E x \in RingIds, s \in RingShards : RingAdd(x, s)
    \/ \E x \in RingIds, s \in RingShards : RingRemove(x, s)
    \/ \E x \in RingIds, k \in RingKeys : RingGet(x, k)

SpecRing == Init /\ [][NextRing]_vars

SpecMerge == InitMerge /\ [][CallMerge]_vars

SpecMergeAppend == InitMerge /\ [][CallMergeAppend]_vars

SpecMergeFrame == InitMergeFrame /\ [][CallMerge]_vars

SpecScan == InitScan /\ [][CallScanKey]_vars

NextStats ==
    \/ TickFlush
    \/ TickSwap
    \/ TickStore
    \/ \E h \in Handlers : HandlerLoad(h)
    \/ \E h \in Handlers : HandlerAdd(h)
    \/ HandlerCounter

SpecStats == Init /\ [][NextStats]_vars

(***************************************************************************)
(* Properties.                                                             *)
(***************************************************************************)
\* The backends of the shard the ring gives for the key of the current line.
ShardBackends == Range(NodesOf(nodes, MapGet(ring, row.key)))

\* WriteRow has started every goroutine of the line and all have returned.
RowDone == wpc \in {"wait", "returned"} /\ row # NoRow /\ AllTasksDone

\* A line with no scannable key: not blank, and ScanKey gives no key.
Unscannable(line) == TrimRight(line) # <<>> /\ ScanKey(TrimRight(line)).err # "nil"

\* The current line is with backend b or on its way: the backend took the
\* direct POST, or the job was accepted and is queued or was POSTed.
Held(b) ==
    IF BufferOn(b)
    THEN task[b] = "enqueued" /\ (Job \in Range(rbQueue[b]) \/ Job \in Range(posted[b]))
    ELSE task[b] \in DirectOutcomes /\ Arrives(task[b]) /\ posted[b] = <<Job>>

\* The outcomes of a dispatch in which the backend did not accept the line.
DispatchFailed(o) == o \in {"buffer_full", "conn_error", "status_5xx", "read_error"}

\* C1: when the goroutines of a line have all returned, WriteRow's loop has
\* read the Active flag of exactly the backends of the shard ring.Get(key),
\* and the line was dispatched (enqueued or POSTed) exactly once to each
\* backend whose flag read true and not at all to any other backend.  It
\* holds of the second copy of WriteRow (SpecRouter) and fails of the first
\* (SpecFirstCopy).
C1_DispatchOncePerActiveReplica ==
    RowDone =>
        \A b \in Backends :
            /\ (b \in ShardBackends) = (saw[b] # "no")
            /\ sent[b] = IF saw[b] = "active" THEN 1 ELSE 0

\* A line dispatched to every backend of a shard with two or more backends.
C1_Witness ==
    /\ RowDone
    /\ Cardinality(ShardBackends) >= 2
    /\ \A b \in Backends : sent[b] = IF b \in ShardBackends THEN 1 ELSE 0

\* C2: whenever Write takes from the payload a line with no scannable key,
\* PointsWrittenFail goes up by one, the line is skipped, and Write goes on
\* to read the rest of the payload.
C2_BadLineCountedAndSkipped ==
    [][(wpc = "read" /\ Unscannable(ReadBytes(buf).line) /\ buf' # buf) =>
          /\ stats'.PointsWrittenFail = stats.PointsWrittenFail + 1
          /\ wpc' = "read"
          /\ buf' = ReadBytes(buf).rest]_vars

\* C3: a POST /write with a db parameter and a parseable body is answered
\* with 204, whatever happened at the backends.
C3_ValidWriteAnswered204 ==
    (wpc = "done" /\ call.via = "http" /\ call.valid) => status = StatusNoContent

\* A valid request answered 204 in which a dispatch failed.
C3_Witness ==
    /\ wpc = "done" /\ call.via = "http" /\ call.valid
    /\ status = StatusNoContent
    /\ stats.PointsWrittenFail > call.failBase

C5_FifoPerBackend ==
    [][\A b \in Backends :
          \/ rbQueue'[b] = rbQueue[b]
          \/ /\ Len(rbQueue'[b]) = Len(rbQueue[b]) + 1
             /\ SubSeq(rbQueue'[b], 1, Len(rbQueue[b])) = rbQueue[b]
             /\ posted'[b] = posted[b]
          \/ /\ posted'[b] # <<>>
             /\ rbQueue[b] = posted'[b] \o rbQueue'[b]]_vars

\* Two different lines accepted by a retry buffer have both arrived.
C5_Witness ==
    \E b \in Backends :
        /\ BufferOn(b)
        /\ rbQueue[b] = <<>>
        /\ Len(posted[b]) = 2
        /\ posted[b][1].line # posted[b][2].line

\* C6: the occupancy of a retry buffer never exceeds CAP, and a write that
\* is rejected with buffer-full is one whose line would exceed CAP and
\* leaves every queue as it was.
C6_BufferBound ==
    /\ [](\A b \in Backends : Occupancy(rbQueue[b]) <= CAP)
    /\ [][\A t \in Backends :
             (task[t] = "run" /\ task'[t] = "buffer_full") =>
                 /\ Occupancy(rbQueue[t]) + Len(row.line) > CAP
                 /\ rbQueue' = rbQueue]_vars

\* A write rejected by a retry buffer that holds a job.
C6_Witness ==
    \E b \in Backends :
        /\ task[b] = "buffer_full"
        /\ rbQueue[b] # <<>>
        /\ Occupancy(rbQueue[b]) + Len(row.line) > CAP

\* C7: when the goroutine of a dispatch returns, PointsWrittenFail has gone
\* up by one if the backend did not accept the line and is unchanged if it
\* did, and the caller of Write is not affected.
C7_FailedDispatchCountedOnce ==
    [][\A t \in Backends :
          (task[t] = "run" /\ task'[t] # "run") =>
              /\ stats'.PointsWrittenFail =
                     stats.PointsWrittenFail + (IF DispatchFailed(task'[t]) THEN 1 ELSE 0)
              /\ wpc' = wpc
              /\ status' = status]_vars

\* C8: every backend is active when created, and when a probe's Ping
\* returns, Active is true exactly if Ping met status 204 or another status
\* with a readable body, and false if the GET or the read of the body
\* failed.
C8_ProbeSetsActive ==
    /\ \A b \in Backends : Active[b]
    /\ [][\A b \in Backends :
             (probe[b] = "ping" /\ probe'[b] = "wait") =>
                 Active'[b] = (pingResp'[b] \in {"204", "other_body_ok"})]_vars

\* A backend active after a ping answered with a status other than 204.
C8_Witness ==
    \E b \in Backends :
        /\ probe[b] = "wait"
        /\ pingResp[b] = "other_body_ok"
        /\ Active[b]

\* C9: a request is accepted only while no backend of the router has been
\* closed: Stop closes the listener before it closes the backends.
C9_NoAcceptAfterBackendsClosed ==
    [][(nreq' = nreq + 1 /\ call'.via = "http") =>
          \A b \in Backends : ~Closed(b)]_vars

\* C10: once the router's Close has returned, every backend of the current
\* ring and of the former ring is closed: ticker stopped, Active false.
C10_CloseClosesEveryBackend ==
    stopPc \in {"router_closed", "stopped"} =>
        \A b \in BackendsOf(nodes) \cup BackendsOf(formerNodes) :
            Closed(b) /\ ~Active[b]

\* The queries Query has made in the loop over ring r, in order.
QueriedIn(r) == SelectSeq(queried, LAMBDA e : e.ring = r)

\* Where backend b stands in the configuration of its shard.
Pos(list, b) == CHOOSE i \in 1..Len(list) : list[i] = b

\* The query has been routed and Query has returned.
QueryServed == qpc = "done" /\ qreq.routed

\* C11: the backends of the shard the current ring resolves are queried in
\* configuration order and only while active; the next one is queried only
\* after a transport error (a failed round trip or a failed read of the
\* body); once the loop is over, either a backend has answered and its body
\* is the collected payload, or every active backend of the shard has been
\* queried and the payload is empty.
C11_FirstActiveBackendWins ==
    qreq.routed =>
        LET qs == QueriedIn("cur")
            list == NodesOf(nodes, qreq.shard)
        IN  /\ \A i \in 1..Len(qs) : qs[i].b \in Range(list) /\ Active[qs[i].b]
            /\ \A i \in 1..(Len(qs) - 1) :
                   /\ Pos(list, qs[i].b) < Pos(list, qs[i + 1].b)
                   /\ qs[i].o.kind # "resp"
            /\ qpc \in {"former", "merge", "reply", "done"} =>
                   \/ \E i \in 1..Len(qs) : qs[i].o.kind = "resp" /\ pn = qs[i].o.body
                   \/ /\ \A b \in Range(list) :
                             Active[b] => \E i \in 1..Len(qs) : qs[i].b = b
                      /\ pn = NoBytes

\* The query has been routed, every body was read, and Query has called
\* merge and returned.
QueryMerged ==
    QueryServed /\ \A i \in 1..Len(queried) : queried[i].o.kind # "unreadable"

\* C12: once a routed query has gone through merge and is answered, the
\* client has status 200 and the output of merge as body when merge
\* succeeded on the collected payloads, and status 400 and an error text
\* when it failed.
C12_StatusFromMerge ==
    QueryMerged =>
        IF merge(pn, po).err
        THEN qstatus = StatusBadRequest /\ qbody.text # ""
        ELSE qstatus = StatusOK /\ qbody = DataBody(merge(pn, po).out)

\* The 5xx statuses.
ServerErrors == 500..599

\* C13: no answer to a /query or /write request carries a 5xx status on
\* account of what a backend did.
C13_NoServerErrorFromBackends ==
    /\ qpc = "done" => qstatus \notin ServerErrors
    /\ (wpc = "done" /\ call.via = "http" /\ call.valid) => status \notin ServerErrors

\* The step by which a /query request with a method and a db, and a query
\* text that is not blank, gets its answer or is routed.
PolicyStep == qpc = "idle" /\ qpc' # "idle" /\ qreq'.valid /\ qreq'.q # <<>>

\* C14: a query that matches a forbidden pattern is answered 400 "query
\* forbidden", adds one to QueryRequestsFail, changes no other counter and
\* reaches no backend.
C14_ForbiddenQuery ==
    [][(PolicyStep /\ MatchesForbidCmd(qreq'.q)) =>
          /\ qpc' = "done"
          /\ qstatus' = StatusBadRequest
          /\ qbody' = ErrBody("query forbidden")
          /\ stats' = [stats EXCEPT !.QueryRequestsFail = @ + 1]
          /\ queried' = <<>>]_vars

\* The policy as configured: no forbidden pattern matches and, where a list
\* of obligated patterns is configured (the first copy), one of them does.
PolicyAccepts(copy, q) ==
    /\ ~MatchesForbidCmd(q)
    /\ copy = 1 => MatchesSupportCmd(q)

\* C15: a query that is not blank goes on to measurement extraction and
\* routing exactly when the policy accepts it, and is answered 400 "query
\* forbidden" otherwise.
C15_PolicyDecides ==
    [][PolicyStep =>
          IF PolicyAccepts(qreq'.copy, qreq'.q)
          THEN qreq'.routed \/ qbody'.text = "can't get measurement"
          ELSE /\ qpc' = "done"
               /\ qstatus' = StatusBadRequest
               /\ qbody' = ErrBody("query forbidden")]_vars

\* C16: once a routed query is answered and merge succeeded: with a former
\* ring, an active backend of the shard the former ring resolves has been
\* queried, if there is one, and the body is the output of merge on both
\* payloads; without a former ring no former backend has been queried and
\* the body is the payload of the current ring.
C16_FormerRingTransparency ==
    (QueryServed /\ ~merge(pn, po).err) =>
        IF formerOn
        THEN /\ (\E b \in Range(NodesOf(formerNodes, MapGet(formerRing, qreq.key))) :
                     Active[b])
                  => QueriedIn("former") # <<>>
             /\ qbody = DataBody(merge(pn, po).out)
        ELSE /\ QueriedIn("former") = <<>>
             /\ po = NoBytes
             /\ qbody = DataBody(pn)

\* The ring's sequence of hashes is in ascending order.
Sorted(ns) == \A i \in 1..(Len(ns) - 1) : ns[i] <= ns[i + 1]

\* The hashes of the virtual nodes shard s contributes.
VNodes(s) == {ChecksumIEEE(<<Itoa(i)>> \o s) : i \in 0..(Replicas - 1)}

\* The hash of the first virtual node at or after the hash of key k, the
\* smallest hash of the ring when there is none.
FirstAtOrAfter(ns, k) ==
    LET hs == Range(ns)
        ge == {h \in hs : h >= ChecksumIEEE(k)}
        from == IF ge = {} THEN hs ELSE ge
    IN  CHOOSE h \in from : \A g \in from : h <= g

\* C17: after any calls of Add and Remove the sequence of hashes is sorted,
\* and Get(k) returns "" on a ring without entries and otherwise a shard
\* that contributes the first virtual node at or after the hash of k, the
\* smallest virtual node when there is none.
C17_RingLookup ==
    /\ [](\A x \in RingIds : Sorted(rings[x].nodes))
    /\ [][got' # got =>
             LET m == rings[got'.ring] IN
             IF m.nodes = <<>>
             THEN got'.shard = <<>>
             ELSE \E s \in RingShards :
                     /\ got'.shard = s
                     /\ FirstAtOrAfter(m.nodes, got'.key) \in VNodes(s)]_vars

\* A ring was built the way NewInfluxCluster builds one: by calls of Add
\* only, one for each shard.
Built(x) ==
    /\ \A i \in 1..Len(ringLog[x]) : ringLog[x][i][1] = "Add"
    /\ \A i, j \in 1..Len(ringLog[x]) : ringLog[x][i] = ringLog[x][j] => i = j

\* No virtual node of one shard of S has the hash of a virtual node of
\* another.
NoCollision(S) == \A s1, s2 \in S : s1 # s2 => VNodes(s1) \cap VNodes(s2) = {}

\* C18 as stated: two rings built with the same set of shards answer Get
\* alike for every key, whatever the order of the calls of Add.
C18_RingDeterminism ==
    (Built("A") /\ Built("B") /\ AddedTo("A") = AddedTo("B")) =>
        \A k \in RingKeys : MapGet(rings["A"], k) = MapGet(rings["B"], k)

\* C18 amended: they do when no two virtual nodes of different shards have
\* the same hash.
C18_RingDeterminismNoCollision ==
    (Built("A") /\ Built("B") /\ AddedTo("A") = AddedTo("B")
        /\ NoCollision(AddedTo("A"))) =>
        \A k \in RingKeys : MapGet(rings["A"], k) = MapGet(rings["B"], k)

\* Two rings built with the same two shards in different orders, on which
\* two keys go to different shards.
C18_Witness ==
    /\ Built("A") /\ Built("B")
    /\ AddedTo("A") = AddedTo("B")
    /\ NoCollision(AddedTo("A"))
    /\ ringLog["A"] # ringLog["B"]
    /\ Len(ringLog["A"]) = 2
    /\ \E k1, k2 \in RingKeys : MapGet(rings["B"], k1) # MapGet(rings["B"], k2)
    /\ got.ring = "B" /\ got.shard # <<>>

\* C19: merge of an empty payload and a payload x, on either side, returns
\* x as it is and no error, whatever x is.
C19_EmptyMerge ==
    mRes # NoMerge =>
        /\ IsEmpty(mIn[1]) => (~mRes.err /\ mRes.out = mIn[2])
        /\ IsEmpty(mIn[2]) => (~mRes.err /\ mRes.out = mIn[1])

\* Two lists of series hold the same series, in whatever order.
SameSeries(s1, s2) ==
    /\ Len(s1) = Len(s2)
    /\ \A x \in Range(s1) \cup Range(s2) :
           Cardinality({i \in 1..Len(s1) : s1[i] = x})
               = Cardinality({i \in 1..Len(s2) : s2[i] = x})

\* Two result sets hold the same statements with the same series.
SameResults(r1, r2) ==
    /\ Len(r1) = Len(r2)
    /\ \A i \in 1..Len(r1) :
           /\ r1[i].statement_id = r2[i].statement_id
           /\ SameSeries(r1[i].series, r2[i].series)

\* C21: merge of a result set with itself gives no error and a result set
\* with the same statements, series and row values.
C21_MergeIdempotent ==
    (mRes # NoMerge /\ mIn[1].kind = "json" /\ mIn[2] = mIn[1]) =>
        /\ ~mRes.err
        /\ SameResults(mRes.out.results, mIn[1].results)

\* The rows of the first series of a result, none when it has no series.
FirstValues(v) == IF Len(v.series) = 0 THEN <<>> ELSE v.series[1].values

\* C20: for results of the two payloads with the same statement id that
\* both have a series, a row index on both sides with the same key, a null
\* value on the first side and a value v on the second has the value v in
\* the output of merge.
C20_MergeNullFill ==
    (mRes # NoMerge /\ mIn[1].kind = "json" /\ mIn[2].kind = "json") =>
        \A p \in 1..Len(mIn[1].results), r \in 1..Len(mIn[2].results) :
            LET v1 == mIn[1].results[p]
                v2 == mIn[2].results[r]
                a == FirstValues(v1)
                b == FirstValues(v2)
            IN  (v1.statement_id = v2.statement_id
                    /\ Len(v1.series) > 0 /\ Len(v2.series) > 0) =>
                \A i \in 1..Len(a) :
                    (i <= Len(b) /\ a[i][1] = b[i][1]
                        /\ a[i][2] = "null" /\ b[i][2] # "null") =>
                    /\ ~mRes.err
                    /\ FirstValues(mRes.out.results[p])[i][2] = b[i][2]

\* The pairs of positions of results of the two payloads that have the same
\* statement id.
SamePairs ==
    {pr \in (1..Len(mIn[1].results)) \X (1..Len(mIn[2].results)) :
        mIn[1].results[pr[1]].statement_id = mIn[2].results[pr[2]].statement_id}

\* merge was called on two result sets.
MergedTwoDocs == mRes # NoMerge /\ mIn[1].kind = "json" /\ mIn[2].kind = "json"

\* C22: in the first series of two results with the same statement id, for
\* a row index on both sides with the same key: a value that is not null on
\* the left is the value of the output, and when one side at most is not
\* null the output of merge(a, b) and that of merge(b, a) have the same
\* value.
C22_MergeLeftWinsAndSymmetry ==
    MergedTwoDocs =>
        \A pr \in SamePairs :
            LET v1 == mIn[1].results[pr[1]]
                v2 == mIn[2].results[pr[2]]
                a == FirstValues(v1)
                b == FirstValues(v2)
                ab == FirstValues(mRes.out.results[pr[1]])
                ba == FirstValues(merge(mIn[2], mIn[1]).out.results[pr[2]])
            IN  (Len(v1.series) > 0 /\ Len(v2.series) > 0) =>
                \A i \in 1..Len(a) :
                    (i <= Len(b) /\ a[i][1] = b[i][1]) =>
                        /\ ~mRes.err
                        /\ a[i][2] # "null" => ab[i][2] = a[i][2]
                        /\ (a[i][2] = "null" \/ b[i][2] = "null") =>
                               ab[i][2] = ba[i][2]

\* C29: for two results with the same statement id of which one has series
\* and the other none, merge gives no error and the result of the output
\* has the series of the side that has some.
C29_MergeOneSideWithoutSeries ==
    MergedTwoDocs =>
        \A pr \in SamePairs :
            LET v1 == mIn[1].results[pr[1]]
                v2 == mIn[2].results[pr[2]]
            IN  ((Len(v1.series) = 0) # (Len(v2.series) = 0)) =>
                    /\ ~mRes.err
                    /\ SameSeries(mRes.out.results[pr[1]].series,
                                  IF Len(v1.series) = 0 THEN v2.series ELSE v1.series)


(***************************************************************************)
(* The key scan.                                                           *)
(***************************************************************************)
\* escape: a backslash before each space, comma and backslash.
RECURSIVE Escape(_)
Escape(m) ==
    IF m = <<>> THEN <<>>
    ELSE (IF Head(m) \in {" ", ",", "\\"} THEN <<"\\", Head(m)>> ELSE <<Head(m)>>)
         \o Escape(Tail(m))

\* The measurement names: any bytes, up to MaxName of them.
Names == UNION {[1..n -> ScanBytes] : n \in 0..MaxName}

StartsWith(line, prefix) ==
    Len(line) >= Len(prefix) /\ SubSeq(line, 1, Len(prefix)) = prefix

\* C23: scanning the line escape(M), a comma, T returns exactly M and no
\* error, for every measurement name M and every rest of the line T.
C23_ScanEscapeLaw ==
    scanned # NoScan =>
        \A m \in Names :
            StartsWith(scanLine, Escape(m) \o <<",">>) =>
                scanned = [key |-> m, err |-> "nil"]

\* A name made of a space and a backslash, scanned back out of its escaped
\* form followed by a comma and a tag byte.
C23_Witness ==
    /\ scanLine = <<"\\", " ", "\\", "\\", ",", "m">>
    /\ scanned = [key |-> <<" ", "\\">>, err |-> "nil"]

\* The line has an unescaped space or comma at position i or later.
RECURSIVE HasDelimiter(_, _)
HasDelimiter(line, i) ==
    IF i > Len(line) THEN FALSE
    ELSE IF line[i] = "\\" THEN HasDelimiter(line, i + 2)
    ELSE IF line[i] \in {" ", ","} THEN TRUE
    ELSE HasDelimiter(line, i + 1)

\* C26: for a line with no unescaped space or comma, the empty line and a
\* line ending in a backslash included, the scan returns io.EOF and no key,
\* and fails in no other way.
C26_NoDelimiterGivesEOF ==
    (scanned # NoScan /\ ~HasDelimiter(scanLine, 1)) =>
        scanned = [key |-> <<>>, err |-> "EOF"]


(***************************************************************************)
(* Remove.                                                                 *)
(***************************************************************************)
\* The last call made on ring x for shard s: "Add", "Remove" or "none".
LastCall(x, s) ==
    LET is == {i \in 1..Len(ringLog[x]) : ringLog[x][i][2] = s} IN
    IF is = {} THEN "none"
    ELSE ringLog[x][CHOOSE i \in is : \A j \in is : j <= i][1]

\* The shards added to ring x and not removed since.
Remaining(x) == {s \in RingShards : LastCall(x, s) = "Add"}

\* C27: once s is removed, whatever was added before, no virtual node of s
\* is left in the sequence (but for a hash a remaining shard shares), Get
\* does not return s, every hash of the sequence maps to a shard that was
\* added and not removed, and Get on a ring with entries never returns "".
C27_RemoveTakesEveryVirtualNode ==
    \A x \in RingIds :
        LET m == rings[x]
            kept == UNION {VNodes(t) : t \in Remaining(x)}
        IN  /\ \A s \in RingShards :
                  LastCall(x, s) = "Remove" =>
                      /\ (VNodes(s) \ kept) \cap Range(m.nodes) = {}
                      /\ \A k \in RingKeys : MapGet(m, k) # s
            /\ \A h \in Range(m.nodes) : MapLookup(m.hashMap, h) \in Remaining(x)
            /\ m.nodes # <<>> => \A k \in RingKeys : MapGet(m, k) # <<>>


(***************************************************************************)
(* The pooled buffers of Query.                                            *)
(***************************************************************************)
\* The step by which Query writes the output of merge to the client.
ReplyStep == qpc = "reply" /\ qpc' = "done"

\* C30: when Query writes the body, the bytes it writes do not lie in a
\* buffer it has put back into the pool, and the body the client gets is
\* the output of merge.
C30_NoUseOfReturnedBuffer ==
    [][ReplyStep =>
          /\ (pp.alias = "none" \/ IsEmpty(pp.out))
          /\ qbody' = DataBody(pp.out)]_vars

\* The body written is not the output of merge: another handler wrote into
\* the buffer between putBuf and w.Write.  (The case C30 excludes.)
C30_BodyOverwritten ==
    /\ qpc = "done"
    /\ pp.alias \in scribbled
    /\ qbody = DataBody(Overwritten)


(***************************************************************************)
(* Close and the probe.                                                    *)
(***************************************************************************)
\* C28: once Close of a backend has returned its Active flag is false and
\* stays false: no iteration of CheckActive, one whose Ping was under way
\* when Close was called included, sets it again, so that the router, which
\* skips a backend that is not active, dispatches nothing to it.
C28_ClosedStaysInactive ==
    \A b \in Backends : Closed(b) => ~Active[b]

\* A closed backend that a Ping begun before Close made active again.  (The
\* case C28 excludes.)
C28_ActiveAfterClose ==
    \E b \in Backends :
        /\ Closed(b)
        /\ probe[b] = "wait"
        /\ pingResp[b] = "204"
        /\ Active[b]


(***************************************************************************)
(* The lines of one call of Write.                                         *)
(***************************************************************************)
\* Write takes a line off the payload.
TakesLine == buf # <<>> /\ buf' # buf

\* C25: when Write takes the next line of the payload, every goroutine
\* WriteRow started for the lines before it has returned; no goroutine of an
\* earlier line is ever running beside those of the current line.
C25_LineAfterLine ==
    /\ [](lagging = {})
    /\ [][TakesLine => AllTasksDone]_vars

\* Two goroutines of one call running for the same backend, one for each of
\* two lines.  (The case C25 excludes.)
C25_TwoTasksOfOneBackend ==
    \E g \in lagging : task[g.t] = "run" /\ g.job.line # row.line


(***************************************************************************)
(* The rotation of the statistics.                                         *)
(***************************************************************************)
\* The live snapshot and the read-out snapshot are two structs: the exchange
\* is one step.
SnapshotsApart == ptr.stats # ptr.counter

\* At the exchange the snapshot that becomes the read-out holds the
\* increments of the interval that ends, and the one that becomes live is
\* zero.
ExchangeStep ==
    (rot.pc = "flushed" /\ rot'.pc = "swapped") =>
        /\ snap[ptr.stats] = added.interval
        /\ snap'[ptr'.stats] = 0

\* Every increment made is in one of the two snapshots or was in the
\* read-out snapshot when Flush zeroed it.
NothingLost == snap["s1"] + snap["s2"] + added.flushed = added.total

\* C24: at each tick the live and the read-out snapshot are exchanged in one
\* step, the read-out then holding the counts of the interval that ended and
\* the new live snapshot starting at zero, and with handlers counting beside
\* the tick every increment is counted once.
C24_StatisticsRotation ==
    /\ [](SnapshotsApart /\ NothingLost)
    /\ [][ExchangeStep]_vars

\* A live snapshot that starts an interval with a count in it: a handler
\* read ic.stats before one exchange and added after the Flush of the next.
\* (The case C24 excludes.)
C24_LiveStartsNonZero ==
    /\ rot.pc = "swapped"
    /\ snap[ptr.stats] > 0
    /\ added.interval = 0


(***************************************************************************)
(* What merge leaves alone.                                                *)
(***************************************************************************)
\* The statement ids of a result set, in its order.
Ids(rs) == [i \in 1..Len(rs) |-> rs[i].statement_id]

\* Series s is series t with, at most, other values in as many rows.
SameFrame(s, t) ==
    /\ s.name = t.name
    /\ s.columns = t.columns
    /\ Len(s.values) = Len(t.values)

\* C31: merge of two non-empty well-formed result sets returns, and gives
\* the results of the left one, in its order and with its statement ids; a
\* left result that has series has the same series in the output, by name,
\* columns and number of rows, and no other; no statement of the right side
\* alone and no series of the right side beyond the first is added to them.
C31_MergeKeepsLeftFrame ==
    MergedTwoDocs =>
        LET l == mIn[1].results
            out == mRes.out.results
        IN  /\ ~mRes.panic
            /\ ~mRes.err
            /\ Ids(out) = Ids(l)
            /\ \A i \in 1..Len(l) :
                   Len(l[i].series) > 0 =>
                       /\ Len(out[i].series) = Len(l[i].series)
                       /\ \A j \in 1..Len(l[i].series) :
                              SameFrame(out[i].series[j], l[i].series[j])

\* The same for the calls of merge that return.
C31_FrameWhenReturned == mRes.panic \/ C31_MergeKeepsLeftFrame

\* Both sides answer SHOW SERIES with the same row of one cell: mergeSlice
\* reads cell 1 of it and merge panics.
C31_MergePanicked ==
    /\ MergedTwoDocs
    /\ mIn[1] = mIn[2]
    /\ mIn[1].results = <<[statement_id |-> 0, series |-> <<SeriesG(<<<<"k1">>>>)>>]>>
    /\ mRes.panic

(***************************************************************************)
(* The account of a line.                                                  *)
(***************************************************************************)
\* The current line reached no backend: no goroutine of it called rb.Write
\* or b.Write.
ReachedNoBackend == \A b \in Backends : sent[b] = 0

\* PointsWrittenFail was counted for the current line.
CountedAsFailure == stats.PointsWrittenFail > row.failBase

\* WriteRow returns from a line that had a key.
WriteRowReturns == wpc = "wait" /\ row # NoRow /\ wpc' = "read"

\* C32: a line WriteRow is done with was dispatched to a backend or counted
\* in PointsWrittenFail, also when no backend of its shard is active or the
\* shard has no backends, and PointsWritten is not incremented for a line
\* that reached no backend.
C32_LineAccountedFor ==
    [][WriteRowReturns =>
          /\ ~ReachedNoBackend \/ CountedAsFailure
          /\ ReachedNoBackend => stats'.PointsWritten = stats.PointsWritten]_vars

\* WriteRow is about to return from a line of a shard whose backends are
\* closed: no goroutine was started, nothing was counted as a failure, and
\* the next step counts the line in PointsWritten.
C32_DroppedUncounted ==
    /\ RowDone
    /\ wpc = "wait"
    /\ ShardBackends # {}
    /\ \A b \in ShardBackends : saw[b] = "inactive"
    /\ ReachedNoBackend
    /\ ~CountedAsFailure
    /\ ENABLED WaitDone

=============================================================================
